---- MODULE Spec2Model ----
(***************************************************************************)
(* NayukiBlog-Admin: the pending-changes store, the commit panel that      *)
(* flushes it to the GitHub contents API, the remote content client and    *)
(* the content pages that feed the store.                                  *)
(*                                                                         *)
(* The specifications share the variables:                                 *)
(*   SpecQueue  the store alone, driven by arbitrary store calls           *)
(*   Spec       pages + store + commit panel + remote repository           *)
(*   SpecRemote the remote client under arbitrary calls                    *)
(*   SpecCodec  the base64/UTF-8 transcoding of saveFile/getFileContent    *)
(*   SpecList   listFiles over a repository tree                           *)
(*   SpecUnauth the client and the commit panel without a credential       *)
(*   SpecNav    the router's guard, preview mode and the session           *)
(*   SpecProxy  the OAuth proxy workers, one request at a time             *)
(*   SpecThread the todo and diary pages across successive commits         *)
(*   SpecInFlight  the pages reachable while a commit is awaited           *)
(*   SpecRemount   the commit panel across a visit of the login route      *)
(*   SpecAuth   the session store and the login page's OAuth callback      *)
(***************************************************************************)
EXTENDS Integers, Sequences, FiniteSets, TLC

VARIABLES
    changes,        \* pendingChanges.ts: changes (PendingChange[])
    now,            \* the clock read by Date.now()
    arg,            \* SpecQueue: the store call made by the last step
    token,          \* auth.ts: token (NoToken when logged out)
    remote,         \* the repository: path -> content, or NoFile
    todoSha,        \* TodoList.vue: dataSha
    diarySha,       \* DiaryList.vue: dataSha
    articleSha,     \* ArticleList/ArticleEdit: the article's sha as fetched
    show,           \* Sidebar: showCommitModal
    committing,     \* CommitModal.vue: committing
    commitMessage,  \* CommitModal.vue: commitMessage (sequence of characters)
    error,          \* CommitModal.vue: error, as <<code, path>>
    success,        \* CommitModal.vue: success, as <<kind, count>>
    batch,          \* the snapshot handed to githubAPI.batchCommit
    results,        \* batchCommit: per snapshot entry "pending", "ok" or "failed"
    firstError,     \* batchCommit: the first failure, as <<status, path>>
    octokit,        \* github.ts: the credential the client was initialised with
    reply,          \* SpecRemote: the outcome of the last call of the client
    text,           \* SpecCodec: the text handed to saveFile
    stored,         \* SpecCodec: the bytes the repository holds
    readBack,       \* SpecCodec: the text getFileContent returned
    cpc,            \* SpecCodec: position of the round trip
    tree,           \* SpecList: the entries of the repository tree
    listing,        \* SpecList: what the last listFiles returned
    articleError,   \* ArticleEdit.vue: error
    route,          \* SpecNav: the current route, as [name, redirect]
    preview,        \* SpecNav: localStorage dev_preview is "true"
    response,       \* SpecProxy: the last call of a worker and its answer
    authUser,       \* auth.ts: user (NoUser when null)
    authLoading,    \* auth.ts: loading
    authError,      \* auth.ts: error
    localStorage,   \* localStorage: github_token, oauth_state, oauth_redirect
    pending,        \* auth.ts: the callers whose fetchUser awaits its response
    oauth           \* Login.vue: the page's refs and its callback's position

vars == <<changes, now, arg, token, remote, todoSha, diarySha, articleSha,
          show, committing, commitMessage, error, success, batch, results,
          firstError, octokit, reply, text, stored, readBack, cpc, tree,
          listing, articleError, route, preview, response, authUser,
          authLoading, authError, localStorage, pending, oauth>>

queueVars == <<changes, now, arg>>
sessionVars == <<token, octokit, remote, todoSha, diarySha, articleSha>>
modalVars == <<show, committing, commitMessage, error, success, batch,
               results, firstError>>
batchVars == <<batch, results, firstError>>
listVars == <<tree, listing>>
pageVars == <<articleError, route, preview>>
authVars == <<authUser, authLoading, authError, localStorage, pending, oauth>>
codecVars == <<reply, text, stored, readBack, cpc, tree, listing,
               articleError, route, preview, response, authVars>>

-----------------------------------------------------------------------------
(* Bounds *)

\* file contents are 0..MaxContent: 0 is the empty text
MaxContent == 1
\* the clock runs over 0..MaxNow and then stands still
MaxNow == 1
\* texts handed to saveFile have at most MaxTextLen UTF-16 code units
MaxTextLen == 2
\* the repository tree of SpecList holds at most MaxEntries entries
MaxEntries == 4

-----------------------------------------------------------------------------
(* Values *)

PATH_ARTICLE == "src/content/blog/a1.md"
PATH_DIARIES == "src/data/diaries.json"
PATH_TODOS == "src/data/todos.json"

Paths == {PATH_ARTICLE, PATH_DIARIES, PATH_TODOS}

ChangeTypes == {"create", "update", "delete"}

Contents == 0..MaxContent

\* '' (what deleteArticle queues as content)
EmptyText == 0

\* what a page serialises (JSON.stringify output, a validated article
\* body) is never empty; the commit protocol does not look into it, and one
\* text stands for it
PageContents == {1}

\* a revision: NoSha stands for the falsy values '' and undefined
NoSha == 0

\* git blob ids are content addressed
BlobSha(content) == content + 1

Shas == {NoSha} \cup {BlobSha(c) : c \in Contents}

Times == 0..MaxNow

-----------------------------------------------------------------------------
(* stores/pendingChanges.ts *)

\* Array.prototype.findIndex on path; 0 stands for -1
FindIndexByPath(q, path) ==
    IF \E i \in 1..Len(q) : q[i].path = path
    THEN CHOOSE i \in 1..Len(q) :
            /\ q[i].path = path
            /\ \A j \in 1..(i - 1) : q[j].path # path
    ELSE 0

\* Array.prototype.findIndex on id; 0 stands for -1
FindIndexById(q, id) ==
    IF \E i \in 1..Len(q) : q[i].id = id
    THEN CHOOSE i \in 1..Len(q) :
            /\ q[i].id = id
            /\ \A j \in 1..(i - 1) : q[j].id # id
    ELSE 0

\* Array.prototype.splice(index, 1)
Splice(q, index) ==
    [i \in 1..(Len(q) - 1) |-> IF i < index THEN q[i] ELSE q[i + 1]]

\* `${change.path}-${Date.now()}`: the timestamp is digits only, so the
\* string determines the pair
MakeId(path, t) == <<path, t>>

\* newChange: the argument plus id and timestamp; t1 and t2 are the two
\* readings of Date.now()
NewChange(change, t1, t2) ==
    [id |-> MakeId(change.path, t1),
     path |-> change.path,
     type |-> change.type,
     content |-> change.content,
     sha |-> change.sha,
     description |-> change.description,
     timestamp |-> t2]

\* addChange without the lookup of an existing entry
addChange_alwaysPush(q, change, t1, t2) ==
    Append(q, NewChange(change, t1, t2))

\* addChange without the create-then-delete rule
addChange_noCancel(q, change, t1, t2) ==
    LET existingIndex == FindIndexByPath(q, change.path)
        newChange == NewChange(change, t1, t2)
    IN  IF existingIndex # 0
        THEN LET existing == q[existingIndex]
             IN  IF existing.type = "create" /\ change.type = "update"
                 THEN [q EXCEPT ![existingIndex] =
                           [newChange EXCEPT !.type = "create"]]
                 ELSE [q EXCEPT ![existingIndex] = newChange]
        ELSE Append(q, newChange)

\* addChange without the create-then-update rule
addChange_noKeepCreate(q, change, t1, t2) ==
    LET existingIndex == FindIndexByPath(q, change.path)
        newChange == NewChange(change, t1, t2)
    IN  IF existingIndex # 0
        THEN LET existing == q[existingIndex]
             IN  IF existing.type = "create" /\ change.type = "delete"
                 THEN Splice(q, existingIndex)
                 ELSE [q EXCEPT ![existingIndex] = newChange]
        ELSE Append(q, newChange)

\* addChange that drops the old entry and pushes the new one at the end
addChange_moveToEnd(q, change, t1, t2) ==
    LET existingIndex == FindIndexByPath(q, change.path)
        newChange == NewChange(change, t1, t2)
    IN  IF existingIndex # 0
        THEN LET existing == q[existingIndex]
             IN  IF existing.type = "create" /\ change.type = "delete"
                 THEN Splice(q, existingIndex)
                 ELSE IF existing.type = "create" /\ change.type = "update"
                      THEN Append(Splice(q, existingIndex),
                                  [newChange EXCEPT !.type = "create"])
                      ELSE Append(Splice(q, existingIndex), newChange)
        ELSE Append(q, newChange)

\* addChange that lets a Delete cancel whatever entry the path has
addChange_cancelAny(q, change, t1, t2) ==
    LET existingIndex == FindIndexByPath(q, change.path)
        newChange == NewChange(change, t1, t2)
    IN  IF existingIndex # 0
        THEN LET existing == q[existingIndex]
             IN  IF change.type = "delete"
                 THEN Splice(q, existingIndex)
                 ELSE IF existing.type = "create" /\ change.type = "update"
                      THEN [q EXCEPT ![existingIndex] =
                                [newChange EXCEPT !.type = "create"]]
                      ELSE [q EXCEPT ![existingIndex] = newChange]
        ELSE Append(q, newChange)

addChange(q, change, t1, t2) ==
    LET existingIndex == FindIndexByPath(q, change.path)
        newChange == NewChange(change, t1, t2)
    IN  IF existingIndex # 0
        THEN LET existing == q[existingIndex]
             IN  IF existing.type = "create" /\ change.type = "delete"
                 THEN Splice(q, existingIndex)
                 ELSE IF existing.type = "create" /\ change.type = "update"
                      THEN [q EXCEPT ![existingIndex] =
                                [newChange EXCEPT !.type = "create"]]
                      ELSE [q EXCEPT ![existingIndex] = newChange]
        ELSE Append(q, newChange)

\* removeChange without the test of the index: splice(-1, 1) takes the last
\* entry out when no entry has the id
removeChange_noGuard(q, id) ==
    LET index == FindIndexById(q, id)
    IN  IF index # 0 THEN Splice(q, index)
        ELSE IF q # <<>> THEN Splice(q, Len(q)) ELSE q

removeChange(q, id) ==
    LET index == FindIndexById(q, id)
    IN  IF index # 0 THEN Splice(q, index) ELSE q

\* removeChangeByPath without the test of the index: splice(-1, 1) takes the
\* last entry out when no entry has the path
removeChangeByPath_noGuard(q, path) ==
    LET index == FindIndexByPath(q, path)
    IN  IF index # 0 THEN Splice(q, index)
        ELSE IF q # <<>> THEN Splice(q, Len(q)) ELSE q

removeChangeByPath(q, path) ==
    LET index == FindIndexByPath(q, path)
    IN  IF index # 0 THEN Splice(q, index) ELSE q

clearChanges(q) == <<>>

hasChanges(q) == Len(q) > 0

changesCount(q) == Len(q)

-----------------------------------------------------------------------------
(* Initial values of the parts a specification leaves alone *)

NoToken == "null"
TheToken == "gho_token"

\* a path the repository has no file at (the contents API answers 404)
NoFile == -1

NoError == <<"null", "">>

NoSuccess == <<"null", 0>>

NoCall == [op |-> "none", path |-> "", type |-> "", content |-> 0,
           sha |-> NoSha, description |-> "", id |-> <<"", 0>>]

\* a route as the router holds it: its name and the redirect of its query
NoRedirect == "none"
StartRoute == [name |-> "dashboard", redirect |-> NoRedirect]

\* no call of a worker yet
NoResponse ==
    [worker |-> "none", code |-> FALSE, exchange |-> "none",
     user |-> "none", login |-> <<>>,
     ALLOWED_USERS |-> [set |-> FALSE, value |-> <<>>],
     status |-> 0, error |-> FALSE, access_token |-> FALSE]

\* no listing yet
NoListing == [dir |-> <<>>, recursive |-> FALSE, items |-> <<>>]

InitQueue == changes = <<>> /\ now = 0 /\ arg = NoCall

\* logged in, nothing fetched yet; the data files exist, the article may
InitSession ==
    /\ token = TheToken
    /\ octokit = NoToken
    /\ remote \in {r \in [Paths -> {NoFile, 1}] :
                      r[PATH_DIARIES] = 1 /\ r[PATH_TODOS] = 1}
    /\ todoSha = NoSha
    /\ diarySha = NoSha
    /\ articleSha = NoSha

InitModal ==
    /\ show = FALSE
    /\ committing = FALSE
    /\ commitMessage = <<>>
    /\ error = NoError
    /\ success = NoSuccess
    /\ batch = <<>>
    /\ results = <<>>
    /\ firstError = NoError

\* auth.ts: the refs other than token as the store is constructed, nothing
\* in localStorage, and Login.vue before its onMounted
NoUser == "null"
TheUser == "nayuki"
NoState == "null"
NoStorage == [github_token |-> NoToken, oauth_state |-> NoState,
              oauth_redirect |-> "null"]
NoUrl == [code |-> FALSE, state |-> NoState, error |-> FALSE]
NoOauth == [pc |-> "idle", loading |-> FALSE, error |-> "null",
            url |-> NoUrl, sent |-> 0]

InitAuth ==
    /\ authUser = NoUser
    /\ authLoading = FALSE
    /\ authError = "null"
    /\ localStorage = NoStorage
    /\ pending = {}
    /\ oauth = NoOauth

InitCodec ==
    /\ reply = "none"
    /\ text = <<>> /\ stored = <<>> /\ readBack = <<>> /\ cpc = "idle"
    /\ tree = {} /\ listing = NoListing
    /\ articleError = "null" /\ route = StartRoute /\ preview = FALSE
    /\ response = NoResponse
    /\ InitAuth

-----------------------------------------------------------------------------
(* SpecQueue: the store under arbitrary calls *)

\* the paths the store is driven with
QueuePaths == {PATH_ARTICLE, PATH_TODOS}

\* the store never inspects revision or description: they are drawn as the
\* two pairs a page passes for a new file and for a fetched one
QueueMeta == {<<NoSha, "d1">>, <<BlobSha(0), "d2">>}

\* nor the content: two values tell the first call's from the second's
QueueContents == {EmptyText, 1}

ChangeInputs ==
    {[path |-> p, type |-> ty, content |-> c, sha |-> m[1],
      description |-> m[2]] :
        p \in QueuePaths, ty \in ChangeTypes, c \in QueueContents,
        m \in QueueMeta}

\* the clock advances
Tick ==
    /\ now < MaxNow
    /\ now' = now + 1
    /\ arg' = [NoCall EXCEPT !.op = "tick"]
    /\ UNCHANGED changes

\* what Date.now() can return when read again right after it returned t
NextReading(t) == {t} \cup {u \in {t + 1} : u <= MaxNow}

\* pendingChangesStore.addChange(change); Date.now() is read twice
CallAddChange ==
    \E change \in ChangeInputs, t2 \in NextReading(now) :
        /\ changes' = addChange(changes, change, now, t2)
        /\ now' = t2
        /\ arg' = [op |-> "addChange", path |-> change.path,
                   type |-> change.type, content |-> change.content,
                   sha |-> change.sha, description |-> change.description,
                   id |-> <<"", 0>>]

\* pendingChangesStore.removeChange(id)
CallRemoveChange ==
    \E path \in QueuePaths, t \in Times :
        /\ changes' = removeChange(changes, MakeId(path, t))
        /\ arg' = [NoCall EXCEPT !.op = "removeChange",
                                 !.id = MakeId(path, t),
                                 !.description =
                                     IF FindIndexById(changes,
                                                      MakeId(path, t)) # 0
                                     THEN "present" ELSE "absent"]
        /\ UNCHANGED now

\* pendingChangesStore.removeChangeByPath(path)
CallRemoveChangeByPath ==
    \E path \in QueuePaths :
        /\ changes' = removeChangeByPath(changes, path)
        /\ arg' = [NoCall EXCEPT !.op = "removeChangeByPath",
                                 !.path = path,
                                 !.description =
                                     IF FindIndexByPath(changes, path) # 0
                                     THEN "present" ELSE "absent"]
        /\ UNCHANGED now

\* pendingChangesStore.clearChanges()
CallClearChanges ==
    /\ changes' = clearChanges(changes)
    /\ arg' = [NoCall EXCEPT !.op = "clearChanges"]
    /\ UNCHANGED now

NextQueue ==
    /\ \/ Tick
       \/ CallAddChange
       \/ CallRemoveChange
       \/ CallRemoveChangeByPath
       \/ CallClearChanges
    /\ UNCHANGED <<sessionVars, modalVars, codecVars>>

InitSpecQueue ==
    /\ InitQueue
    /\ token = TheToken
    /\ octokit = NoToken
    /\ remote = [p \in Paths |-> NoFile]
    /\ todoSha = NoSha /\ diarySha = NoSha /\ articleSha = NoSha
    /\ InitModal
    /\ InitCodec

SpecQueue == InitSpecQueue /\ [][NextQueue]_vars

-----------------------------------------------------------------------------
(* api/github.ts: the remote content client, and the contents API behind it *)

\* the contents API: PUT /repos/{owner}/{repo}/contents/{path}.  A file is
\* created when there is none and no sha is sent, and replaced when the sha
\* sent is the blob id of the file; every other request is refused and
\* leaves the repository as it was
createOrUpdateFileContents(rem, path, content, sha) ==
    IF rem[path] = NoFile
    THEN IF sha = NoSha
         THEN [status |-> "ok", remote |-> [rem EXCEPT ![path] = content]]
         ELSE [status |-> "Unprocessable", remote |-> rem]
    ELSE IF sha = NoSha
         THEN [status |-> "Unprocessable", remote |-> rem]
         ELSE IF sha = BlobSha(rem[path])
              THEN [status |-> "ok", remote |-> [rem EXCEPT ![path] = content]]
              ELSE [status |-> "Conflict", remote |-> rem]

\* the contents API: DELETE /repos/{owner}/{repo}/contents/{path}
deleteFileContents(rem, path, sha) ==
    IF rem[path] = NoFile
    THEN [status |-> "NotFound", remote |-> rem]
    ELSE IF sha = NoSha
         THEN [status |-> "Unprocessable", remote |-> rem]
         ELSE IF sha = BlobSha(rem[path])
              THEN [status |-> "ok", remote |-> [rem EXCEPT ![path] = NoFile]]
              ELSE [status |-> "Conflict", remote |-> rem]

\* what a request can meet: the API, or a transport failure
Nets == {"up", "down"}

\* saveFile without checkInit: the request goes out without a credential
saveFile_noCheckInit(kit, rem, path, content, sha, net) ==
    IF net = "down"
    THEN [status |-> "RemoteError", remote |-> rem]
    ELSE createOrUpdateFileContents(rem, path, content, sha)

\* saveFile that looks the current sha up instead of sending the caller's
saveFile_force(kit, rem, path, content, sha, net) ==
    IF kit = NoToken
    THEN [status |-> "Unauthenticated", remote |-> rem]
    ELSE IF net = "down"
         THEN [status |-> "RemoteError", remote |-> rem]
         ELSE createOrUpdateFileContents(rem, path, content,
                  IF rem[path] = NoFile THEN NoSha ELSE BlobSha(rem[path]))

\* saveFile(path, content, message, sha): checkInit, then the request with
\* `...(sha && { sha })`; a failure of the request is thrown on unchanged
saveFile(kit, rem, path, content, sha, net) ==
    IF kit = NoToken
    THEN [status |-> "Unauthenticated", remote |-> rem]
    ELSE IF net = "down"
         THEN [status |-> "RemoteError", remote |-> rem]
         ELSE createOrUpdateFileContents(rem, path, content, sha)

\* deleteFile(path, message, sha)
deleteFile(kit, rem, path, sha, net) ==
    IF kit = NoToken
    THEN [status |-> "Unauthenticated", remote |-> rem]
    ELSE IF net = "down"
         THEN [status |-> "RemoteError", remote |-> rem]
         ELSE deleteFileContents(rem, path, sha)

\* getFileContent(path): checkInit, then the request; a 404 is thrown as
\* "file does not exist", any other failure as it is
getFileContent(kit, rem, path, net) ==
    IF kit = NoToken
    THEN [status |-> "Unauthenticated", content |-> EmptyText, sha |-> NoSha]
    ELSE IF net = "down"
         THEN [status |-> "RemoteError", content |-> EmptyText,
               sha |-> NoSha]
         ELSE IF rem[path] = NoFile
              THEN [status |-> "NotFound", content |-> EmptyText,
                    sha |-> NoSha]
              ELSE [status |-> "ok", content |-> rem[path],
                    sha |-> BlobSha(rem[path])]

\* getArticle(slug): the article (its sha here), or null (NoSha) when
\* getFileContent throws, whatever it throws
getArticle(kit, rem, path, net) ==
    IF getFileContent(kit, rem, path, net).status = "ok"
    THEN getFileContent(kit, rem, path, net).sha
    ELSE NoSha

\* getFileContent(path), as far as the pages use it: the sha of the file,
\* NoSha when the request fails (404 or transport)
getFileSha(rem, path, net) ==
    IF net = "down" \/ rem[path] = NoFile THEN NoSha ELSE BlobSha(rem[path])

-----------------------------------------------------------------------------
(* components/common/CommitModal.vue *)

Whitespace == {" "}

\* String.prototype.trim on a sequence of characters
RECURSIVE TrimStart(_)
TrimStart(m) ==
    IF m # <<>> /\ Head(m) \in Whitespace THEN TrimStart(Tail(m)) ELSE m

RECURSIVE TrimEnd(_)
TrimEnd(m) ==
    IF m # <<>> /\ m[Len(m)] \in Whitespace
    THEN TrimEnd(SubSeq(m, 1, Len(m) - 1))
    ELSE m

Trim(m) == TrimEnd(TrimStart(m))

\* what the user can have typed into the message box
Messages == {<<>>, <<" ">>, <<" ", "m">>}

\* the button of the sidebar that opens the panel; the watcher of show
\* clears both messages
openCommitModal ==
    /\ ~show
    /\ show' = TRUE
    /\ error' = NoError
    /\ success' = NoSuccess
    /\ UNCHANGED <<queueVars, sessionVars, committing, commitMessage,
                   batchVars, codecVars>>

\* the textarea of the message (v-model, disabled while committing, shown
\* while there are changes)
TypeMessage ==
    \E m \in Messages :
        /\ show /\ ~committing
        /\ hasChanges(changes)
        /\ m # commitMessage
        /\ commitMessage' = m
        /\ UNCHANGED <<queueVars, sessionVars, show, committing, error,
                       success, batchVars, codecVars>>

\* the snapshot without the revisions of the entries
ToBatch_noSha(q) ==
    [i \in 1..Len(q) |-> [path |-> q[i].path, type |-> q[i].type,
                          content |-> q[i].content, sha |-> NoSha]]

\* the snapshot commitChanges hands to batchCommit
ToBatch(q) ==
    [i \in 1..Len(q) |-> [path |-> q[i].path, type |-> q[i].type,
                          content |-> q[i].content, sha |-> q[i].sha]]

\* commitChanges without the check of the message
commitChanges_start_noMessageCheck ==
    /\ show /\ ~committing
    /\ IF ~hasChanges(changes)
       THEN /\ error' = <<"EmptyCommit", "">>
            /\ UNCHANGED <<committing, batchVars, octokit>>
       ELSE IF token = NoToken
       THEN /\ error' = <<"Unauthenticated", "">>
            /\ UNCHANGED <<committing, batchVars, octokit>>
       ELSE /\ committing' = TRUE
            /\ error' = NoError
            /\ octokit' = token
            /\ batch' = ToBatch(changes)
            /\ results' = [i \in 1..Len(changes) |-> "pending"]
            /\ firstError' = NoError
    /\ UNCHANGED <<queueVars, token, remote, todoSha, diarySha, articleSha,
                   show, commitMessage, success, codecVars>>

\* commitChanges up to its await: the three early returns, then the call of
\* githubAPI.batchCommit with the snapshot and the trimmed message.  The
\* button is disabled while committing
commitChanges_start ==
    /\ show /\ ~committing
    /\ IF Trim(commitMessage) = <<>>
       THEN /\ error' = <<"MissingMessage", "">>
            /\ UNCHANGED <<committing, batchVars, octokit>>
       ELSE IF ~hasChanges(changes)
       THEN /\ error' = <<"EmptyCommit", "">>
            /\ UNCHANGED <<committing, batchVars, octokit>>
       ELSE IF token = NoToken
       THEN /\ error' = <<"Unauthenticated", "">>
            /\ UNCHANGED <<committing, batchVars, octokit>>
       ELSE /\ committing' = TRUE
            /\ error' = NoError
            /\ octokit' = token
            /\ batch' = ToBatch(changes)
            /\ results' = [i \in 1..Len(changes) |-> "pending"]
            /\ firstError' = NoError
    /\ UNCHANGED <<queueVars, token, remote, todoSha, diarySha, articleSha,
                   show, commitMessage, success, codecVars>>

\* githubAPI.batchCommit, one entry: the remote operation of its kind; when
\* it succeeds the entry of its path is taken out of the queue, when it
\* fails the first failure is kept as the error of the batch
batchCommit_dispatch ==
    \E i \in 1..Len(batch), net \in Nets :
        /\ committing
        /\ results[i] = "pending"
        /\ LET c == batch[i]
               r == IF c.type = "delete"
                    THEN deleteFile(octokit, remote, c.path, c.sha, net)
                    ELSE saveFile(octokit, remote, c.path, c.content, c.sha,
                                  net)
           IN  /\ remote' = r.remote
               /\ results' = [results EXCEPT ![i] =
                                 IF r.status = "ok" THEN "ok" ELSE "failed"]
               /\ changes' = IF r.status = "ok"
                             THEN removeChangeByPath(changes, c.path)
                             ELSE changes
               /\ firstError' = IF r.status # "ok" /\ firstError = NoError
                                THEN <<r.status, c.path>>
                                ELSE firstError
        /\ UNCHANGED <<now, arg, token, octokit, todoSha, diarySha,
                       articleSha, show, committing, commitMessage, error,
                       success, batch, codecVars>>

\* the batch has nothing left to do: every entry was tried, or one failed
\* (an implementation may stop at the first failure or go on)
BatchSettled ==
    \/ \A i \in 1..Len(batch) : results[i] # "pending"
    \/ firstError # NoError

\* the result batchCommit resolves with
BatchSuccess == firstError = NoError

\* commitChanges after its await, reporting the length of the queue as it
\* is then in place of the length of the snapshot
commitChanges_resume_liveCount ==
    /\ committing
    /\ BatchSettled
    /\ IF BatchSuccess
       THEN /\ success' = <<"committed", Len(changes)>>
            /\ changes' = clearChanges(changes)
            /\ commitMessage' = <<>>
            /\ UNCHANGED error
       ELSE /\ error' = firstError
            /\ UNCHANGED <<success, changes, commitMessage>>
    /\ committing' = FALSE
    /\ batch' = <<>>
    /\ results' = <<>>
    /\ firstError' = NoError
    /\ UNCHANGED <<now, arg, sessionVars, show, codecVars>>

\* commitChanges after its await: on success report the count, clear the
\* queue and the message; otherwise show the error; finally committing = false
commitChanges_resume ==
    /\ committing
    /\ BatchSettled
    /\ IF BatchSuccess
       THEN /\ success' = <<"committed", Len(batch)>>
            /\ changes' = clearChanges(changes)
            /\ commitMessage' = <<>>
            /\ UNCHANGED error
       ELSE /\ error' = firstError
            /\ UNCHANGED <<success, changes, commitMessage>>
    /\ committing' = FALSE
    /\ batch' = <<>>
    /\ results' = <<>>
    /\ firstError' = NoError
    /\ UNCHANGED <<now, arg, sessionVars, show, codecVars>>

\* the discard button of an entry (not disabled while committing)
modal_removeChange ==
    \E i \in 1..Len(changes) :
        /\ show
        /\ changes' = removeChange(changes, changes[i].id)
        /\ UNCHANGED <<now, arg, sessionVars, modalVars, codecVars>>

\* the discard-all button, confirmed (not disabled while committing)
clearAllChanges ==
    /\ show
    /\ hasChanges(changes)
    /\ changes' = clearChanges(changes)
    /\ success' = <<"discarded", 0>>
    /\ UNCHANGED <<now, arg, sessionVars, show, committing, commitMessage,
                   error, batchVars, codecVars>>

\* handleClose without its frame: it takes the queue down with the panel
handleClose_discard ==
    /\ show /\ ~committing
    /\ show' = FALSE
    /\ error' = NoError
    /\ success' = NoSuccess
    /\ changes' = clearChanges(changes)
    /\ UNCHANGED <<now, arg, sessionVars, committing, commitMessage,
                   batchVars, codecVars>>

\* handleClose (the cancel button is disabled while committing)
handleClose ==
    /\ show /\ ~committing
    /\ show' = FALSE
    /\ error' = NoError
    /\ success' = NoSuccess
    /\ UNCHANGED <<queueVars, sessionVars, committing, commitMessage,
                   batchVars, codecVars>>

\* the setTimeout callbacks: the one of a commit takes the message down and
\* closes the panel, the one of a discard takes the message down
successTimeout ==
    /\ success # NoSuccess
    /\ success' = NoSuccess
    /\ show' = IF success[1] = "committed" THEN FALSE ELSE show
    /\ UNCHANGED <<queueVars, sessionVars, committing, commitMessage, error,
                   batchVars, codecVars>>

-----------------------------------------------------------------------------
(* stores/auth.ts *)

\* logout (the sidebar's button, or fetchUser failing); a later login goes
\* through a page load, which starts from Init
logout ==
    /\ ~show
    /\ token # NoToken
    /\ token' = NoToken
    /\ UNCHANGED <<queueVars, octokit, remote, todoSha, diarySha, articleSha,
                   modalVars, codecVars>>

-----------------------------------------------------------------------------
(* The pages.  A page is behind the commit panel while the panel is shown; *)
(* its handlers run while it is closed.                                    *)

\* the description a page passes is display text; one text per page
\* stands for the texts its handlers build
TodoText == "todo"
DiaryText == "diary"
ArticleText == "article"

\* a page's call of addChange: both readings of the clock give now
PageAddChange(path, type, content, sha, description) ==
    changes' = addChange(changes,
                         [path |-> path, type |-> type, content |-> content,
                          sha |-> sha, description |-> description],
                         now, now)

\* TodoList.vue fetchTodos: dataSha is set when the read succeeds
fetchTodos ==
    \E net \in Nets :
        /\ ~show
        /\ token # NoToken
        /\ octokit' = token
        /\ todoSha' = IF getFileSha(remote, PATH_TODOS, net) # NoSha
                      THEN getFileSha(remote, PATH_TODOS, net)
                      ELSE todoSha
        /\ UNCHANGED <<queueVars, token, remote, diarySha, articleSha,
                       modalVars, codecVars>>

\* TodoList.vue saveTodo
saveTodo ==
    \E isNewTodo \in BOOLEAN, content \in PageContents :
        /\ ~show
        /\ token # NoToken
        /\ PageAddChange(PATH_TODOS,
                         IF isNewTodo THEN "create" ELSE "update",
                         content, todoSha,
                         TodoText)
        /\ UNCHANGED <<now, arg, sessionVars, modalVars, codecVars>>

\* TodoList.vue toggleComplete
toggleComplete ==
    \E content \in PageContents :
        /\ ~show
        /\ token # NoToken
        /\ PageAddChange(PATH_TODOS, "update", content, todoSha, TodoText)
        /\ UNCHANGED <<now, arg, sessionVars, modalVars, codecVars>>

\* TodoList.vue deleteTodo
deleteTodo ==
    \E content \in PageContents :
        /\ ~show
        /\ token # NoToken
        /\ PageAddChange(PATH_TODOS, "delete", content, todoSha, TodoText)
        /\ UNCHANGED <<now, arg, sessionVars, modalVars, codecVars>>

\* DiaryList.vue fetchDiaries
fetchDiaries ==
    \E net \in Nets :
        /\ ~show
        /\ token # NoToken
        /\ octokit' = token
        /\ diarySha' = IF getFileSha(remote, PATH_DIARIES, net) # NoSha
                       THEN getFileSha(remote, PATH_DIARIES, net)
                       ELSE diarySha
        /\ UNCHANGED <<queueVars, token, remote, todoSha, articleSha,
                       modalVars, codecVars>>

\* DiaryList.vue saveDiary
saveDiary ==
    \E isNewDiary \in BOOLEAN, content \in PageContents :
        /\ ~show
        /\ token # NoToken /\ diarySha # NoSha
        /\ PageAddChange(PATH_DIARIES,
                         IF isNewDiary THEN "create" ELSE "update",
                         content, diarySha,
                         DiaryText)
        /\ UNCHANGED <<now, arg, sessionVars, modalVars, codecVars>>

\* DiaryList.vue deleteDiary
deleteDiary ==
    \E content \in PageContents :
        /\ ~show
        /\ token # NoToken /\ diarySha # NoSha
        /\ PageAddChange(PATH_DIARIES, "update", content, diarySha,
                         DiaryText)
        /\ UNCHANGED <<now, arg, sessionVars, modalVars, codecVars>>

\* fetchArticles of the list and fetchArticle of the editor: the article's
\* sha as read, none when the read fails
fetchArticle ==
    \E net \in Nets :
        /\ ~show
        /\ IF token = NoToken
           THEN /\ articleError' = "NotLoggedIn"
                /\ UNCHANGED <<octokit, articleSha>>
           ELSE /\ octokit' = token
                /\ articleSha' = getArticle(token, remote, PATH_ARTICLE, net)
                /\ articleError' =
                       IF getArticle(token, remote, PATH_ARTICLE, net) = NoSha
                       THEN "ArticleNotFound"
                       ELSE "null"
        /\ UNCHANGED <<queueVars, token, remote, todoSha, diarySha,
                       modalVars, reply, text, stored, readBack, cpc,
                       listVars, route, preview, response, authVars>>

\* ArticleEdit.vue saveArticle: an update with originalSha in edit mode, a
\* create without sha otherwise
saveArticle ==
    \E isEditMode \in BOOLEAN, content \in PageContents :
        /\ ~show
        /\ token # NoToken
        /\ octokit' = token
        /\ PageAddChange(PATH_ARTICLE,
                         IF isEditMode THEN "update" ELSE "create",
                         content,
                         IF isEditMode THEN articleSha ELSE NoSha,
                         ArticleText)
        /\ UNCHANGED <<now, arg, token, remote, todoSha, diarySha,
                       articleSha, modalVars, codecVars>>

\* ArticleList.vue deleteArticle: githubAPI.deleteArticle(slug, sha) at
\* once; the article leaves the list when the call succeeds
ArticleList_deleteArticle ==
    \E net \in Nets :
        /\ ~show
        /\ token # NoToken /\ articleSha # NoSha
        /\ octokit' = token
        /\ LET r == deleteFile(token, remote, PATH_ARTICLE, articleSha, net)
           IN  /\ remote' = r.remote
               /\ articleSha' = IF r.status = "ok" THEN NoSha ELSE articleSha
        /\ UNCHANGED <<queueVars, token, todoSha, diarySha, modalVars,
                       codecVars>>

\* the paginated article list (ArticleEdit.vue, second component)
PaginatedList_deleteArticle ==
    /\ ~show
    /\ token # NoToken /\ articleSha # NoSha
    /\ octokit' = token
    /\ PageAddChange(PATH_ARTICLE, "delete", EmptyText, articleSha,
                     ArticleText)
    /\ articleSha' = NoSha
    /\ UNCHANGED <<now, arg, token, remote, todoSha, diarySha, modalVars,
                   codecVars>>

-----------------------------------------------------------------------------
(* Spec: the pages, the store, the commit panel and the repository *)

Init == InitQueue /\ InitSession /\ InitModal /\ InitCodec

Next ==
    \/ logout
    \/ fetchTodos
    \/ saveTodo
    \/ toggleComplete
    \/ deleteTodo
    \/ fetchDiaries
    \/ saveDiary
    \/ deleteDiary
    \/ fetchArticle
    \/ saveArticle
    \/ ArticleList_deleteArticle
    \/ PaginatedList_deleteArticle
    \/ openCommitModal
    \/ TypeMessage
    \/ commitChanges_start
    \/ batchCommit_dispatch
    \/ commitChanges_resume
    \/ modal_removeChange
    \/ clearAllChanges
    \/ handleClose
    \/ successTimeout

Spec == Init /\ [][Next]_vars

-----------------------------------------------------------------------------
(* SpecRemote: the client's write and delete under arbitrary calls *)

RemotePaths == {PATH_ARTICLE, PATH_TODOS}

\* githubAPI.init(token)
CallInit ==
    /\ octokit = NoToken
    /\ octokit' = TheToken
    /\ arg' = [NoCall EXCEPT !.op = "init"]
    /\ reply' = "none"
    /\ UNCHANGED <<changes, now, token, remote, todoSha, diarySha,
                   articleSha, modalVars, text, stored, readBack, cpc,
                   listVars, pageVars, response, authVars>>

\* githubAPI.saveFile(path, content, message, sha); the description of the
\* call records whether the request got through
CallSaveFile ==
    \E path \in RemotePaths, content \in Contents, sha \in Shas, net \in Nets :
        LET r == saveFile(octokit, remote, path, content, sha, net)
        IN  /\ remote' = r.remote
            /\ reply' = r.status
            /\ arg' = [NoCall EXCEPT !.op = "saveFile", !.path = path,
                                     !.content = content, !.sha = sha,
                                     !.description = net]
            /\ UNCHANGED <<changes, now, token, octokit, todoSha, diarySha,
                           articleSha, modalVars, text, stored, readBack,
                           cpc, listVars, pageVars, response, authVars>>

\* githubAPI.deleteFile(path, message, sha)
CallDeleteFile ==
    \E path \in RemotePaths, sha \in Shas, net \in Nets :
        LET r == deleteFile(octokit, remote, path, sha, net)
        IN  /\ remote' = r.remote
            /\ reply' = r.status
            /\ arg' = [NoCall EXCEPT !.op = "deleteFile", !.path = path,
                                     !.sha = sha, !.description = net]
            /\ UNCHANGED <<changes, now, token, octokit, todoSha, diarySha,
                           articleSha, modalVars, text, stored, readBack,
                           cpc, listVars, pageVars, response, authVars>>

\* githubAPI.getFileContent(path)
CallGetFileContent ==
    \E path \in RemotePaths, net \in Nets :
        /\ reply' = getFileContent(octokit, remote, path, net).status
        /\ arg' = [NoCall EXCEPT !.op = "getFileContent", !.path = path,
                                 !.description = net]
        /\ UNCHANGED <<changes, now, sessionVars, modalVars, text, stored,
                       readBack, cpc, listVars, pageVars, response, authVars>>

NextRemote == CallInit \/ CallSaveFile \/ CallDeleteFile

InitSpecRemote ==
    /\ InitQueue
    /\ token = TheToken
    /\ octokit = NoToken
    /\ remote = [p \in Paths |-> NoFile]
    /\ todoSha = NoSha /\ diarySha = NoSha /\ articleSha = NoSha
    /\ InitModal
    /\ InitCodec

SpecRemote == InitSpecRemote /\ [][NextRemote]_vars

-----------------------------------------------------------------------------
(* SpecCodec: the transcoding of saveFile and getFileContent.  A text is a
   sequence of UTF-16 code units, as a JavaScript string is. *)

\* 'a', e-acute, a CJK character, the byte order mark U+FEFF, and the two
\* halves of the surrogate pair of U+1F600
TextAlphabet == {97, 233, 20320, 65279, 55357, 56832}

Texts == UNION {[1..n -> TextAlphabet] : n \in 0..MaxTextLen}

\* the conversion of a string to scalar values that TextEncoder applies: a
\* surrogate pair is one scalar value, a lone surrogate becomes U+FFFD
RECURSIVE ToScalarValues(_)
ToScalarValues(units) ==
    IF units = <<>> THEN <<>>
    ELSE LET u == Head(units)
             rest == Tail(units)
         IN  IF /\ u \in 55296..56319
                /\ rest # <<>>
                /\ Head(rest) \in 56320..57343
             THEN <<65536 + (u - 55296) * 1024 + (Head(rest) - 56320)>>
                      \o ToScalarValues(Tail(rest))
             ELSE IF u \in 55296..57343
                  THEN <<65533>> \o ToScalarValues(rest)
                  ELSE <<u>> \o ToScalarValues(rest)

\* the UTF-8 bytes of one scalar value
Utf8Bytes(cp) ==
    IF cp < 128 THEN <<cp>>
    ELSE IF cp < 2048
         THEN <<192 + (cp \div 64), 128 + (cp % 64)>>
         ELSE IF cp < 65536
              THEN <<224 + (cp \div 4096), 128 + ((cp \div 64) % 64),
                     128 + (cp % 64)>>
              ELSE <<240 + (cp \div 262144), 128 + ((cp \div 4096) % 64),
                     128 + ((cp \div 64) % 64), 128 + (cp % 64)>>

RECURSIVE EncodeScalars(_)
EncodeScalars(cps) ==
    IF cps = <<>> THEN <<>>
    ELSE Utf8Bytes(Head(cps)) \o EncodeScalars(Tail(cps))

\* new TextEncoder().encode(content)
TextEncoder_encode(content) == EncodeScalars(ToScalarValues(content))

\* String.fromCharCode(...utf8Bytes): one code unit per byte
fromCharCode(bytes) == [i \in 1..Len(bytes) |-> bytes[i] % 65536]

\* btoa(binaryString): four base64 digits (0..63) for three bytes, padded
\* with '=' (written 64)
RECURSIVE btoa(_)
btoa(bin) ==
    IF Len(bin) = 0 THEN <<>>
    ELSE IF Len(bin) = 1
         THEN <<bin[1] \div 4, (bin[1] % 4) * 16, 64, 64>>
         ELSE IF Len(bin) = 2
              THEN <<bin[1] \div 4, (bin[1] % 4) * 16 + (bin[2] \div 16),
                     (bin[2] % 16) * 4, 64>>
              ELSE <<bin[1] \div 4, (bin[1] % 4) * 16 + (bin[2] \div 16),
                     (bin[2] % 16) * 4 + (bin[3] \div 64), bin[3] % 64>>
                       \o btoa(SubSeq(bin, 4, Len(bin)))

\* atob(base64): the binary string of the digits
RECURSIVE atob(_)
atob(b64) ==
    IF Len(b64) < 4 THEN <<>>
    ELSE LET b1 == b64[1] * 4 + (b64[2] \div 16)
             b2 == (b64[2] % 16) * 16 + (b64[3] \div 4)
             b3 == (b64[3] % 4) * 64 + b64[4]
             rest == atob(SubSeq(b64, 5, Len(b64)))
         IN  IF b64[3] = 64 THEN <<b1>>
             ELSE IF b64[4] = 64 THEN <<b1, b2>>
                  ELSE <<b1, b2, b3>> \o rest

\* the contents API returns the base64 text in lines of 60 digits, each
\* ended by a line feed (written 65)
RECURSIVE WrapLines(_)
WrapLines(b64) ==
    IF Len(b64) <= 60 THEN b64 \o <<65>>
    ELSE SubSeq(b64, 1, 60) \o <<65>> \o WrapLines(SubSeq(b64, 61, Len(b64)))

\* response.data.content.replace(/\n/g, '')
StripNewlines(s) == SelectSeq(s, LAMBDA c : c # 65)

\* the bytes a binary string holds: bytes[i] = binaryString.charCodeAt(i)
\* in a Uint8Array
charCodes(bin) == [i \in 1..Len(bin) |-> bin[i] % 256]

\* the scalar values of a UTF-8 byte sequence; a byte that starts no
\* complete sequence decodes to U+FFFD
RECURSIVE Utf8Decode(_)
Utf8Decode(bytes) ==
    IF bytes = <<>> THEN <<>>
    ELSE LET b == Head(bytes)
             n == Len(bytes)
             Cont(i) == i <= n /\ bytes[i] \in 128..191
         IN  IF b < 128 THEN <<b>> \o Utf8Decode(Tail(bytes))
             ELSE IF b \in 192..223 /\ Cont(2)
             THEN <<(b - 192) * 64 + (bytes[2] - 128)>>
                      \o Utf8Decode(SubSeq(bytes, 3, n))
             ELSE IF b \in 224..239 /\ Cont(2) /\ Cont(3)
             THEN <<(b - 224) * 4096 + (bytes[2] - 128) * 64
                        + (bytes[3] - 128)>>
                      \o Utf8Decode(SubSeq(bytes, 4, n))
             ELSE IF b \in 240..247 /\ Cont(2) /\ Cont(3) /\ Cont(4)
             THEN <<(b - 240) * 262144 + (bytes[2] - 128) * 4096
                        + (bytes[3] - 128) * 64 + (bytes[4] - 128)>>
                      \o Utf8Decode(SubSeq(bytes, 5, n))
             ELSE <<65533>> \o Utf8Decode(Tail(bytes))

\* the UTF-16 code units of scalar values
RECURSIVE ToUtf16(_)
ToUtf16(cps) ==
    IF cps = <<>> THEN <<>>
    ELSE LET cp == Head(cps)
         IN  IF cp >= 65536
             THEN <<55296 + ((cp - 65536) \div 1024),
                    56320 + ((cp - 65536) % 1024)>> \o ToUtf16(Tail(cps))
             ELSE <<cp>> \o ToUtf16(Tail(cps))

\* new TextDecoder('utf-8').decode(bytes): ignoreBOM is false, so a byte
\* order mark at the start of the input is dropped
TextDecoder_decode(bytes) ==
    LET cps == Utf8Decode(bytes)
    IN  IF cps # <<>> /\ Head(cps) = 65279
        THEN ToUtf16(Tail(cps))
        ELSE ToUtf16(cps)

\* saveFile, the content it sends; the repository stores the bytes of it
CodecSaveFile ==
    /\ cpc = "start"
    /\ stored' = atob(btoa(fromCharCode(TextEncoder_encode(text))))
    /\ cpc' = "saved"
    /\ UNCHANGED <<queueVars, sessionVars, modalVars, reply, text, readBack,
                   listVars, pageVars, response, authVars>>

\* getFileContent, the content it returns for the stored bytes
CodecGetFileContent ==
    /\ cpc = "saved"
    /\ readBack' = TextDecoder_decode(
                       charCodes(atob(StripNewlines(WrapLines(btoa(stored))))))
    /\ cpc' = "read"
    /\ UNCHANGED <<queueVars, sessionVars, modalVars, reply, text, stored,
                   listVars, pageVars, response, authVars>>

NextCodec == CodecSaveFile \/ CodecGetFileContent

InitSpecCodec ==
    /\ InitQueue
    /\ InitSession
    /\ InitModal
    /\ reply = "none"
    /\ text \in Texts
    /\ stored = <<>>
    /\ readBack = <<>>
    /\ cpc = "start"
    /\ tree = {} /\ listing = NoListing
    /\ articleError = "null" /\ route = StartRoute /\ preview = FALSE
    /\ response = NoResponse
    /\ InitAuth

SpecCodec == InitSpecCodec /\ [][NextCodec]_vars

-----------------------------------------------------------------------------
(* SpecList: listFiles over a repository tree.  An entry of the tree is a
   path, as the sequence of its names, and a type; a name is the sequence of
   its characters.  The root of the repository is the empty path. *)

Names == {<<"a">>, <<"_", "b">>}

EntryTypes == {"file", "dir", "symlink"}

Root == <<>>

Parent(path) == SubSeq(path, 1, Len(path) - 1)

LastName(path) == path[Len(path)]

Exists(t, path) == path = Root \/ \E e \in t : e.path = path

IsDir(t, path) == path = Root \/ [path |-> path, type |-> "dir"] \in t

Children(t, path) == {e \in t : e.path # Root /\ Parent(e.path) = path}

\* item.name.startsWith("_")
StartsWithUnderscore(name) == name # <<>> /\ name[1] = "_"

\* the array the contents API returns for a directory
RECURSIVE SetToSeq(_)
SetToSeq(S) ==
    IF S = {} THEN <<>>
    ELSE LET e == CHOOSE x \in S : TRUE
         IN  <<e>> \o SetToSeq(S \ {e})

RECURSIVE listFiles_noExclude(_, _, _, _)
RECURSIVE ListDirs_noExclude(_, _, _)

\* listFiles descending into every directory
listFiles_noExclude(t, path, recursive, excludeUnderscoreFolders) ==
    IF ~IsDir(t, path) THEN <<>>
    ELSE LET items == SetToSeq(Children(t, path))
         IN  IF recursive
             THEN SelectSeq(items, LAMBDA item : item.type = "file")
                      \o ListDirs_noExclude(t,
                             SelectSeq(items,
                                       LAMBDA item : item.type = "dir"),
                             excludeUnderscoreFolders)
             ELSE items

ListDirs_noExclude(t, directories, excludeUnderscoreFolders) ==
    IF directories = <<>> THEN <<>>
    ELSE listFiles_noExclude(t, Head(directories).path, TRUE,
                             excludeUnderscoreFolders)
             \o ListDirs_noExclude(t, Tail(directories),
                                   excludeUnderscoreFolders)

RECURSIVE listFiles(_, _, _, _)
RECURSIVE ListDirs(_, _, _)

\* listFiles(path, recursive, excludeUnderscoreFolders) when its requests are
\* answered: a path that is no directory gives no array and so [], a
\* directory gives its items, or with recursive its files followed by the
\* listings of its directories that are not excluded
listFiles(t, path, recursive, excludeUnderscoreFolders) ==
    IF ~IsDir(t, path) THEN <<>>
    ELSE LET items == SetToSeq(Children(t, path))
             directories ==
                 SelectSeq(items,
                     LAMBDA item :
                         /\ item.type = "dir"
                         /\ ~(/\ excludeUnderscoreFolders
                              /\ StartsWithUnderscore(LastName(item.path))))
             files == SelectSeq(items, LAMBDA item : item.type = "file")
         IN  IF recursive
             THEN files \o ListDirs(t, directories, excludeUnderscoreFolders)
             ELSE items

\* for (const dir of directories) files.push(...await this.listFiles(...))
ListDirs(t, directories, excludeUnderscoreFolders) ==
    IF directories = <<>> THEN <<>>
    ELSE listFiles(t, Head(directories).path, TRUE, excludeUnderscoreFolders)
             \o ListDirs(t, Tail(directories), excludeUnderscoreFolders)

\* a push by anyone adds an entry below the root or below a directory
AddEntry ==
    \E e \in tree \cup {[path |-> Root, type |-> "dir"]},
       name \in Names, type \in EntryTypes :
        /\ Cardinality(tree) < MaxEntries
        /\ e.type = "dir"
        /\ ~Exists(tree, Append(e.path, name))
        /\ tree' = tree \cup {[path |-> Append(e.path, name), type |-> type]}
        /\ arg' = [NoCall EXCEPT !.op = "push"]
        /\ UNCHANGED <<changes, now, sessionVars, modalVars, reply, text,
                       stored, readBack, cpc, listing, pageVars, response, authVars>>

\* the paths listFiles is called with: the root, the path of an entry, and
\* a path that no entry has
ListPaths(t) == {Root, <<<<"z">>>>} \cup {e.path : e \in t}

\* githubAPI.listFiles(path, recursive): checkInit, then the requests
CallListFiles ==
    \E path \in ListPaths(tree), recursive \in BOOLEAN, net \in Nets :
        /\ reply' = IF octokit = NoToken THEN "Unauthenticated"
                    ELSE IF net = "down" THEN "RemoteError"
                    ELSE IF ~Exists(tree, path) THEN "NotFound"
                    ELSE "ok"
        /\ listing' =
               [dir |-> path, recursive |-> recursive,
                items |-> IF /\ octokit # NoToken
                             /\ net = "up"
                             /\ Exists(tree, path)
                          THEN listFiles(tree, path, recursive, TRUE)
                          ELSE <<>>]
        /\ arg' = [NoCall EXCEPT !.op = "listFiles", !.description = net]
        /\ UNCHANGED <<changes, now, sessionVars, modalVars, text, stored,
                       readBack, cpc, tree, pageVars, response, authVars>>

NextList == CallInit \/ AddEntry \/ CallListFiles

SpecList == InitSpecRemote /\ [][NextList]_vars
-----------------------------------------------------------------------------
-----------------------------------------------------------------------------------------------------------------------------------------------------
(* SpecUnauth: a session without a credential.  The token is gone (logout,
   or fetchUser failing) and the client was never initialised, while the
   queue may still hold what a page recorded before. *)

\* the queue after saveTodo on an empty queue, before any fetch
QueuedTodo ==
    addChange(<<>>,
              [path |-> PATH_TODOS, type |-> "update", content |-> 1,
               sha |-> NoSha, description |-> TodoText],
              0, 0)

InitSpecUnauth ==
    /\ changes \in {<<>>, QueuedTodo}
    /\ now = 0
    /\ arg = NoCall
    /\ token = NoToken
    /\ octokit = NoToken
    /\ remote \in {r \in [Paths -> {NoFile, 1}] :
                      r[PATH_DIARIES] = 1 /\ r[PATH_TODOS] = 1}
    /\ todoSha = NoSha /\ diarySha = NoSha /\ articleSha = NoSha
    /\ InitModal
    /\ InitCodec

NextUnauth ==
    \/ CallSaveFile
    \/ CallDeleteFile
    \/ CallGetFileContent
    \/ CallListFiles
    \/ openCommitModal
    \/ TypeMessage
    \/ commitChanges_start
    \/ handleClose

SpecUnauth == InitSpecUnauth /\ [][NextUnauth]_vars

-----------------------------------------------------------------------------
(* SpecNav: the router, preview mode and the session.  A route is the name
   of its record and the redirect of its query; the pages behind
   requiresAuth are all alike to the guard, and the todo page stands for the
   pages that fetch and record. *)

RouteNames == {"login", "dashboard", "todos"}

\* meta.requiresAuth: false on the login route only
requiresAuth(name) == name # "login"

\* stores/auth.ts isAuthenticated
isAuthenticated(tok) == tok # NoToken

Route(name) == [name |-> name, redirect |-> NoRedirect]

\* router.beforeEach without the test of isAuthenticated on a guarded route
beforeEach_noAuthCheck(to, tok, flag) ==
    IF flag
    THEN to
    ELSE IF to.name = "login" /\ isAuthenticated(tok)
         THEN Route("dashboard")
         ELSE to

\* router.beforeEach: the route that next() is given, to itself for next()
beforeEach(to, tok, flag) ==
    IF flag
    THEN to
    ELSE IF requiresAuth(to.name) /\ ~isAuthenticated(tok)
         THEN [name |-> "login", redirect |-> to.name]
         ELSE IF to.name = "login" /\ isAuthenticated(tok)
              THEN Route("dashboard")
              ELSE to

\* a navigation: the router runs the guard again on the route the guard
\* redirects to, until the guard lets one through
RECURSIVE Resolve(_, _, _)
Resolve(to, tok, flag) ==
    LET r == beforeEach(to, tok, flag)
    IN  IF r = to THEN to ELSE Resolve(r, tok, flag)

\* App.vue mounts the layout, with the sidebar and its commit panel, on the
\* routes other than login: arriving at login unmounts the panel, whose
\* refs start afresh at the next mount; the store of the queue stays
Layout(r) ==
    IF r.name = "login"
    THEN /\ show' = FALSE /\ committing' = FALSE /\ commitMessage' = <<>>
         /\ error' = NoError /\ success' = NoSuccess
         /\ UNCHANGED batchVars
    ELSE UNCHANGED modalVars

\* the label of a router.push
Push(to) == [NoCall EXCEPT !.op = "navigate", !.path = to]

\* router.push, a router-link or the browser's back and forward buttons;
\* isDevPreviewMode reads the flag of localStorage
routerPush ==
    \E to \in RouteNames :
        /\ route' = Resolve(Route(to), token, preview)
        /\ arg' = Push(to)
        /\ Layout(Resolve(Route(to), token, preview))
        /\ UNCHANGED <<changes, now, sessionVars, reply, text, stored,
                       readBack, cpc, listVars, articleError, preview,
                       response, authVars>>

\* Login.vue enterPreviewMode
enterPreviewMode ==
    /\ route.name = "login"
    /\ preview' = TRUE
    /\ route' = Resolve(Route("dashboard"), token, TRUE)
    /\ arg' = Push("dashboard")
    /\ UNCHANGED <<changes, now, sessionVars, modalVars, reply, text, stored,
                   readBack, cpc, listVars, articleError,
                   response, authVars>>

\* DevPreviewBanner.vue exitPreviewMode; the banner of preview mode is
\* shown to a session that is not logged in
exitPreviewMode ==
    /\ route.name = "todos"
    /\ preview /\ ~isAuthenticated(token)
    /\ preview' = FALSE
    /\ route' = Resolve(Route("login"), token, FALSE)
    /\ arg' = Push("login")
    /\ Layout(Route("login"))
    /\ UNCHANGED <<changes, now, sessionVars, reply, text, stored, readBack,
                   cpc, listVars, articleError,
                   response, authVars>>

\* Sidebar.vue handleLogout: the store's logout, then router.push('/login')
handleLogout ==
    /\ requiresAuth(route.name)
    /\ ~show
    /\ isAuthenticated(token)
    /\ token' = NoToken
    /\ route' = Resolve(Route("login"), NoToken, preview)
    /\ arg' = Push("login")
    /\ Layout(Route("login"))
    /\ UNCHANGED <<changes, now, octokit, remote, todoSha, diarySha,
                   articleSha, reply, text, stored, readBack, cpc, listVars,
                   articleError, preview, response, authVars>>

\* Login.vue handleOAuthCallback, when the proxy hands out a token: the
\* browser comes back from GitHub with a page load, so what the stores and
\* the client held in memory is gone; setToken, then router.push of the
\* path handleLogin saved
handleOAuthCallback ==
    /\ route.name = "login"
    /\ token' = TheToken
    /\ route' = Resolve(Route(IF route.redirect = NoRedirect
                              THEN "dashboard" ELSE route.redirect),
                        TheToken, preview)
    /\ arg' = [NoCall EXCEPT !.op = "oauth"]
    /\ changes' = <<>>
    /\ octokit' = NoToken
    /\ todoSha' = NoSha /\ diarySha' = NoSha /\ articleSha' = NoSha
    /\ show' = FALSE /\ committing' = FALSE /\ commitMessage' = <<>>
    /\ error' = NoError /\ success' = NoSuccess
    /\ UNCHANGED <<now, remote, batchVars, reply, text, stored, readBack,
                   cpc, listVars, articleError, preview,
                       response, authVars>>

\* the state after a page load: the token and the flag are what
\* localStorage holds (a URL with preview=true sets the flag), the route is
\* what the guard makes of the URL
InitSpecNav ==
    /\ InitQueue
    /\ token \in {NoToken, TheToken}
    /\ octokit = NoToken
    /\ remote = [p \in Paths |-> 1]
    /\ todoSha = NoSha /\ diarySha = NoSha /\ articleSha = NoSha
    /\ InitModal
    /\ reply = "none"
    /\ text = <<>> /\ stored = <<>> /\ readBack = <<>> /\ cpc = "idle"
    /\ tree = {} /\ listing = NoListing
    /\ articleError = "null"
    /\ response = NoResponse
    /\ InitAuth
    /\ preview \in BOOLEAN
    /\ route \in {Resolve(Route(n), token, preview) : n \in RouteNames}

\* the todo page's handlers run while the router shows the page
TodoList_fetchTodos == route.name = "todos" /\ fetchTodos

TodoList_saveTodo == route.name = "todos" /\ saveTodo

\* the sidebar and its commit panel belong to the layout
Sidebar_openCommitModal == route.name # "login" /\ openCommitModal

CommitModal_handleClose == route.name # "login" /\ handleClose

NextNav ==
    \/ routerPush
    \/ enterPreviewMode
    \/ exitPreviewMode
    \/ handleLogout
    \/ handleOAuthCallback
    \/ TodoList_fetchTodos
    \/ TodoList_saveTodo
    \/ Sidebar_openCommitModal
    \/ CommitModal_handleClose

SpecNav == InitSpecNav /\ [][NextNav]_vars

-----------------------------------------------------------------------------
(* SpecProxy: the OAuth proxy.  The repository holds three workers for it:
   workers/oauth-proxy/index.js, workers/oauth-proxy/index.ts and a third
   script of the same shape.  A call is GET /callback with or without a
   code; GitHub answers the exchange and the request for the user as it
   pleases.  A string is the sequence of its characters. *)

MaxListLen == 3

\* the characters of an allow-list and the logins GitHub reports
ListAlphabet == {"a", "A", "b", " ", ","}

Logins == {<<"a">>, <<"A">>, <<"b">>}

\* env.ALLOWED_USERS: not set, or a string
Envs ==
    {[set |-> FALSE, value |-> <<>>]}
        \cup {[set |-> TRUE, value |-> v] :
                 v \in UNION {[1..n -> ListAlphabet] : n \in 0..MaxListLen}}

\* the answers of POST /login/oauth/access_token: not ok, a body with
\* error, a body without access_token, a body with access_token
Exchanges == {"notOk", "error", "noToken", "token"}

\* the answers of GET /user
Users == {"notOk", "ok"}

\* a string as a condition: undefined and '' are falsy
Truthy(env) == env.set /\ env.value # <<>>

toLowerCase(s) == [i \in 1..Len(s) |-> IF s[i] = "A" THEN "a" ELSE s[i]]

\* String.prototype.split(','): the pieces between the commas
RECURSIVE split(_)
split(s) ==
    IF \A i \in 1..Len(s) : s[i] # ","
    THEN <<s>>
    ELSE LET i == CHOOSE k \in 1..Len(s) :
                      s[k] = "," /\ \A j \in 1..(k - 1) : s[j] # ","
         IN  <<SubSeq(s, 1, i - 1)>> \o split(SubSeq(s, i + 1, Len(s)))

\* Array.prototype.includes
includes(list, x) == \E i \in 1..Len(list) : list[i] = x

\* env.ALLOWED_USERS.split(',').map(u => u.trim().toLowerCase())
allowedUsers(env) ==
    LET pieces == split(env.value)
    IN  [i \in 1..Len(pieces) |-> toLowerCase(Trim(pieces[i]))]

\* the third script's isUserAllowed
isUserAllowed(username, env) ==
    IF ~Truthy(env)
    THEN TRUE
    ELSE includes(allowedUsers(env), toLowerCase(username))

\* jsonResponse with an error / with the token
ErrorResponse(status) ==
    [status |-> status, error |-> TRUE, access_token |-> FALSE]

TokenResponse == [status |-> 200, error |-> FALSE, access_token |-> TRUE]

\* workers/oauth-proxy/index.js, the branch of /callback in fetch
indexJs_fetch(code, exchange, user, login, env) ==
    IF ~code THEN ErrorResponse(400)
    ELSE IF exchange = "notOk" THEN ErrorResponse(500)
    ELSE IF exchange = "error" THEN ErrorResponse(401)
    ELSE IF exchange = "noToken" THEN ErrorResponse(500)
    ELSE IF user = "notOk" THEN ErrorResponse(500)
    ELSE IF /\ Truthy(env)
            /\ ~includes(allowedUsers(env), toLowerCase(login))
         THEN ErrorResponse(403)
         ELSE TokenResponse

\* workers/oauth-proxy/index.ts handleCallback: exchangeCodeForToken throws
\* on a response that is not ok, and the catch answers 500; the user is not
\* asked for and env has no ALLOWED_USERS
indexTs_handleCallback(code, exchange, user, login, env) ==
    IF ~code THEN ErrorResponse(400)
    ELSE IF exchange = "notOk" THEN ErrorResponse(500)
    ELSE IF exchange = "error" THEN ErrorResponse(401)
    ELSE IF exchange = "noToken" THEN ErrorResponse(500)
    ELSE TokenResponse

\* the third script's handleCallback: getGitHubUser throws on a response
\* that is not ok, and the catch answers 500
part005_handleCallback(code, exchange, user, login, env) ==
    IF ~code THEN ErrorResponse(400)
    ELSE IF exchange = "notOk" THEN ErrorResponse(500)
    ELSE IF exchange = "error" THEN ErrorResponse(401)
    ELSE IF exchange = "noToken" THEN ErrorResponse(500)
    ELSE IF user = "notOk" THEN ErrorResponse(500)
    ELSE IF ~isUserAllowed(login, env) THEN ErrorResponse(403)
    ELSE TokenResponse

\* a request that waits for its answer, and the answer a worker gives it
Request(code, exchange, user, login, env) ==
    [worker |-> "none", code |-> code, exchange |-> exchange, user |-> user,
     login |-> login, ALLOWED_USERS |-> env,
     status |-> 0, error |-> FALSE, access_token |-> FALSE]

Answer(worker, q, r) ==
    [q EXCEPT !.worker = worker, !.status = r.status, !.error = r.error,
              !.access_token = r.access_token]

CallIndexJs ==
    /\ response.worker = "none"
    /\ response' = Answer("index.js", response,
                          indexJs_fetch(response.code, response.exchange,
                                        response.user, response.login,
                                        response.ALLOWED_USERS))
    /\ UNCHANGED <<queueVars, sessionVars, modalVars, reply, text, stored,
                   readBack, cpc, listVars, pageVars, authVars>>

CallIndexTs ==
    /\ response.worker = "none"
    /\ response' = Answer("index.ts", response,
                          indexTs_handleCallback(response.code,
                                                 response.exchange,
                                                 response.user,
                                                 response.login,
                                                 response.ALLOWED_USERS))
    /\ UNCHANGED <<queueVars, sessionVars, modalVars, reply, text, stored,
                   readBack, cpc, listVars, pageVars, authVars>>

CallPart005 ==
    /\ response.worker = "none"
    /\ response' = Answer("part_005", response,
                          part005_handleCallback(response.code,
                                                 response.exchange,
                                                 response.user,
                                                 response.login,
                                                 response.ALLOWED_USERS))
    /\ UNCHANGED <<queueVars, sessionVars, modalVars, reply, text, stored,
                   readBack, cpc, listVars, pageVars, authVars>>

NextProxy == CallIndexJs \/ CallIndexTs \/ CallPart005

\* a worker keeps nothing between two requests: a behaviour is one request,
\* drawn here, and the answer of one of the workers
InitSpecProxy ==
    /\ InitQueue
    /\ token = NoToken /\ octokit = NoToken
    /\ remote = [p \in Paths |-> 1]
    /\ todoSha = NoSha /\ diarySha = NoSha /\ articleSha = NoSha
    /\ InitModal
    /\ reply = "none"
    /\ text = <<>> /\ stored = <<>> /\ readBack = <<>> /\ cpc = "idle"
    /\ tree = {} /\ listing = NoListing
    /\ articleError = "null" /\ route = StartRoute /\ preview = FALSE
    /\ response \in {Request(code, exchange, user, login, env) :
                        code \in BOOLEAN, exchange \in Exchanges,
                        user \in Users, login \in Logins, env \in Envs}
    /\ InitAuth

SpecProxy == InitSpecProxy /\ [][NextProxy]_vars

-----------------------------------------------------------------------------
(* SpecThread: the todo page and the diary page, mounted and left mounted,
   and the commit panel.  The pages have fetched their files, whose content
   is not the one an edit serialises; nobody else writes to the repository. *)

InitSpecThread ==
    /\ InitQueue
    /\ token = TheToken
    /\ octokit = TheToken
    /\ remote = [p \in Paths |-> IF p = PATH_ARTICLE THEN NoFile ELSE 0]
    /\ todoSha = BlobSha(0)
    /\ diarySha = BlobSha(0)
    /\ articleSha = NoSha
    /\ InitModal
    /\ InitCodec

NextThread ==
    \/ saveTodo
    \/ toggleComplete
    \/ saveDiary
    \/ deleteDiary
    \/ openCommitModal
    \/ TypeMessage
    \/ commitChanges_start
    \/ batchCommit_dispatch
    \/ commitChanges_resume
    \/ handleClose
    \/ successTimeout

SpecThread == InitSpecThread /\ [][NextThread]_vars

-----------------------------------------------------------------------------
(* SpecInFlight: the pages and the commit panel when the panel is taken
   down while its commit is still awaited.  CommitModal gives Modal the
   props show, title and width and answers its close event with handleClose;
   nothing tells Modal that a commit is in flight. *)

\* the close event of Modal: handleClose, whatever committing is
Modal_close ==
    /\ show
    /\ show' = FALSE
    /\ error' = NoError
    /\ success' = NoSuccess
    /\ UNCHANGED <<queueVars, sessionVars, committing, commitMessage,
                   batchVars, codecVars>>

NextInFlight ==
    \/ saveTodo
    \/ saveDiary
    \/ openCommitModal
    \/ TypeMessage
    \/ commitChanges_start
    \/ batchCommit_dispatch
    \/ commitChanges_resume
    \/ Modal_close
    \/ successTimeout

SpecInFlight == InitSpecThread /\ [][NextInFlight]_vars

-----------------------------------------------------------------------------
(* SpecRemount: the commit panel across a visit of the login route.  With
   the preview flag set the guard lets a session with a token reach login;
   App.vue then unmounts the layout and with it the panel, and mounts a new
   panel on the way back.  The call of batchCommit the old panel awaits has
   not returned while batch is not empty; its steps are followed while the
   panel that made it is mounted. *)

InitSpecRemount ==
    /\ InitQueue
    /\ token = TheToken
    /\ octokit = TheToken
    /\ remote = [p \in Paths |-> IF p = PATH_ARTICLE THEN NoFile ELSE 0]
    /\ todoSha = BlobSha(0)
    /\ diarySha = BlobSha(0)
    /\ articleSha = NoSha
    /\ InitModal
    /\ reply = "none"
    /\ text = <<>> /\ stored = <<>> /\ readBack = <<>> /\ cpc = "idle"
    /\ tree = {} /\ listing = NoListing
    /\ articleError = "null"
    /\ response = NoResponse
    /\ InitAuth
    /\ preview = TRUE
    /\ route = Route("todos")

NextRemount ==
    \/ routerPush
    \/ TodoList_saveTodo
    \/ Sidebar_openCommitModal
    \/ CommitModal_handleClose
    \/ TypeMessage
    \/ commitChanges_start
    \/ batchCommit_dispatch
    \/ commitChanges_resume
    \/ successTimeout

SpecRemount == InitSpecRemount /\ [][NextRemount]_vars

-----------------------------------------------------------------------------
(* SpecAuth: the session store (stores/auth.ts) and the login page
   (views/Login.vue).  fetchUser awaits the answer of GET /user and the
   callback awaits the answer of the proxy; the other calls of the store can
   run in between.  Leaving for GitHub's authorisation page ends the
   scripts of the page; the load of the return URL constructs the store
   anew from localStorage. *)

NewToken == "gho_new"
Tokens == {TheToken, NewToken}
OauthStates == {"s1", "s2"}
Callers == {"layout", "login"}
Urls == [code : BOOLEAN, state : {NoState} \cup OauthStates, error : BOOLEAN]

besideAuth == <<changes, now, octokit, remote, todoSha, diarySha, articleSha,
                modalVars, reply, text, stored, readBack, cpc, listVars,
                articleError, preview, response>>

\* token, user and localStorage, the three things setToken and logout write
Store == [token |-> token, user |-> authUser, storage |-> localStorage]

SetStore(st) ==
    /\ token' = st.token
    /\ authUser' = st.user
    /\ localStorage' = st.storage

\* auth.ts setToken
setToken(st, newToken) ==
    [st EXCEPT !.token = newToken, !.storage.github_token = newToken]

\* logout without the removal of github_token from localStorage
authLogout_keepStorage(st) ==
    [st EXCEPT !.token = NoToken, !.user = NoUser]

\* auth.ts logout (the name logout is the page's step of Spec)
authLogout(st) ==
    [st EXCEPT !.token = NoToken, !.user = NoUser,
               !.storage.github_token = NoToken]

\* auth.ts fetchUser up to its await: nothing without a token
fetchUser_call(caller) ==
    IF token' = NoToken
    THEN UNCHANGED <<authLoading, authError, pending>>
    ELSE /\ authLoading' = TRUE
         /\ authError' = "null"
         /\ pending' = pending \cup {caller}

\* the test of the state that skips the comparison
verifyState_any(state, savedState) ==
    TRUE

\* Login.vue handleOAuthCallback: state !== savedState throws
verifyState(state, savedState) ==
    state = savedState

\* Login.vue onMounted with the parameters of the URL, and
\* handleOAuthCallback up to its await of the proxy
onMounted(url, storage) ==
    IF url.error
    THEN [oauth |-> [NoOauth EXCEPT !.error = "cancelled"],
          storage |-> storage]
    ELSE IF url.code /\ url.state # NoState
    THEN IF verifyState(url.state, storage.oauth_state)
         THEN [oauth |-> [pc |-> "proxy", loading |-> TRUE, error |-> "null",
                          url |-> url, sent |-> 1],
               storage |-> [storage EXCEPT !.oauth_state = NoState]]
         ELSE [oauth |-> [pc |-> "idle", loading |-> FALSE,
                          error |-> "state", url |-> url, sent |-> 0],
               storage |-> storage]
    ELSE [oauth |-> NoOauth, storage |-> storage]

Running == oauth.pc # "away"

\* authStore.setToken(newToken)
CallSetToken ==
    \E newToken \in Tokens :
        /\ Running
        /\ SetStore(setToken(Store, newToken))
        /\ arg' = [NoCall EXCEPT !.op = "setToken"]
        /\ UNCHANGED <<besideAuth, route, authLoading, authError, pending,
                       oauth>>

\* authStore.fetchUser(), as AdminLayout.vue's onMounted calls it
CallFetchUser ==
    /\ Running
    /\ "layout" \notin pending
    /\ SetStore(Store)
    /\ fetchUser_call("layout")
    /\ arg' = [NoCall EXCEPT !.op = "fetchUser"]
    /\ UNCHANGED <<besideAuth, route, oauth>>

\* authStore.logout()
CallLogout ==
    /\ Running
    /\ SetStore(authLogout(Store))
    /\ arg' = [NoCall EXCEPT !.op = "logout"]
    /\ UNCHANGED <<besideAuth, route, authLoading, authError, pending, oauth>>

\* the path handleOAuthCallback pushes after fetchUser, as a route name
RedirectName(storage) ==
    IF storage.oauth_redirect = "null" THEN "dashboard"
    ELSE storage.oauth_redirect

\* the answer of GET /user arrives and fetchUser runs to its end; the
\* callback of the login page that awaited it runs to its end as well
fetchUser_resume ==
    \E caller \in pending, ok \in BOOLEAN :
        LET st == IF ok THEN [Store EXCEPT !.user = TheUser]
                  ELSE authLogout(Store)
        IN  /\ Running
            /\ pending' = pending \ {caller}
            /\ authLoading' = FALSE
            /\ authError' = IF ok THEN authError ELSE "failed"
            /\ arg' = [NoCall EXCEPT !.op = "fetchUserResponse",
                                     !.path = caller,
                                     !.description =
                                         IF ok THEN "ok" ELSE "failed"]
            /\ IF caller = "login"
               THEN /\ SetStore([st EXCEPT !.storage.oauth_redirect = "null"])
                    /\ route' = Resolve(Route(RedirectName(st.storage)),
                                        st.token, preview)
                    /\ oauth' = [oauth EXCEPT !.pc = "idle",
                                              !.loading = FALSE]
               ELSE /\ SetStore(st)
                    /\ UNCHANGED <<route, oauth>>
            /\ UNCHANGED besideAuth

\* Login.vue handleLogin: the redirect and a fresh state are saved and the
\* browser leaves for GitHub
handleLogin ==
    \E state \in OauthStates :
        /\ Running
        /\ route.name = "login"
        /\ ~oauth.loading
        /\ localStorage' =
               [localStorage EXCEPT
                    !.oauth_redirect = IF route.redirect = NoRedirect
                                       THEN "dashboard" ELSE route.redirect,
                    !.oauth_state = state]
        /\ oauth' = [oauth EXCEPT !.pc = "away", !.loading = TRUE,
                                  !.error = "null"]
        /\ arg' = [NoCall EXCEPT !.op = "handleLogin"]
        /\ UNCHANGED <<besideAuth, route, token, authUser, authLoading,
                       authError, pending>>

\* the browser loads /login with the parameters url: the store is
\* constructed from localStorage, the guard runs, and Login.vue's onMounted
\* runs when the guard lets the page be shown
Load ==
    \E url \in Urls :
        LET r == Resolve(Route("login"), localStorage.github_token, preview)
            m == onMounted(url, localStorage)
        IN  /\ token' = localStorage.github_token
            /\ authUser' = NoUser
            /\ authLoading' = FALSE
            /\ authError' = "null"
            /\ pending' = {}
            /\ route' = r
            /\ IF r.name = "login"
               THEN oauth' = m.oauth /\ localStorage' = m.storage
               ELSE oauth' = NoOauth /\ UNCHANGED localStorage
            /\ arg' = [NoCall EXCEPT !.op = "load"]
            /\ UNCHANGED besideAuth

\* the answer of the proxy arrives: handleOAuthCallback from its first
\* await to its await of fetchUser, or to its catch
proxyResponse ==
    \E ok \in BOOLEAN, access_token \in {NoToken, NewToken} :
        /\ oauth.pc = "proxy"
        /\ arg' = [NoCall EXCEPT !.op = "proxyResponse",
                                 !.description =
                                     IF ~ok THEN "failed"
                                     ELSE IF access_token = NoToken
                                     THEN "ok" ELSE "ok+token"]
        /\ IF ok /\ access_token # NoToken
           THEN /\ SetStore(setToken(Store, access_token))
                /\ fetchUser_call("login")
                /\ oauth' = [oauth EXCEPT !.pc = "user"]
           ELSE /\ oauth' = [oauth EXCEPT !.pc = "idle", !.loading = FALSE,
                                          !.error = IF ~ok THEN "proxy"
                                                    ELSE "no_token"]
                /\ UNCHANGED <<token, authUser, localStorage, authLoading,
                               authError, pending>>
        /\ UNCHANGED <<besideAuth, route>>

InitSpecAuth ==
    /\ InitQueue
    /\ token \in {NoToken, TheToken}
    /\ octokit = NoToken
    /\ remote = [p \in Paths |-> 1]
    /\ todoSha = NoSha /\ diarySha = NoSha /\ articleSha = NoSha
    /\ InitModal
    /\ reply = "none"
    /\ text = <<>> /\ stored = <<>> /\ readBack = <<>> /\ cpc = "idle"
    /\ tree = {} /\ listing = NoListing
    /\ articleError = "null"
    /\ response = NoResponse
    /\ preview \in BOOLEAN
    /\ route \in {Resolve([name |-> "login", redirect |-> rd], token, preview) :
                     rd \in {NoRedirect, "todos"}}
    /\ authUser = NoUser
    /\ authLoading = FALSE
    /\ authError = "null"
    /\ localStorage = [NoStorage EXCEPT !.github_token = token]
    /\ pending = {}
    /\ oauth = NoOauth

NextAuth ==
    \/ CallSetToken
    \/ CallFetchUser
    \/ CallLogout
    \/ fetchUser_resume
    \/ handleLogin
    \/ Load
    \/ proxyResponse

SpecAuth == InitSpecAuth /\ [][NextAuth]_vars

-----------------------------------------------------------------------------
(* Properties of the store *)

\* the entries of q for a path / for the other paths, in queue order
EntriesFor(q, path) == SelectSeq(q, LAMBDA e : e.path = path)
OtherEntries(q, path) == SelectSeq(q, LAMBDA e : e.path # path)

\* the step is an addChange call of the given type
AddChangeStep(type) == arg'.op = "addChange" /\ arg'.type = type

\* recording a Create for P leaves one Create entry for P and the other
\* paths' entries as they were
CreateRecorded ==
    AddChangeStep("create") =>
        /\ Len(EntriesFor(changes', arg'.path)) = 1
        /\ EntriesFor(changes', arg'.path)[1].type = "create"
        /\ OtherEntries(changes', arg'.path) = OtherEntries(changes, arg'.path)

\* C1: in every reachable state the queue holds at most one entry per path
C1_AtMostOnePerPath ==
    \A i, j \in 1..Len(changes) : i # j => changes[i].path # changes[j].path

\* C1 witness: a second change for a queued path was recorded while another
\* path was queued behind it
C1_Witness ==
    /\ arg.op = "addChange"
    /\ Len(changes) = 2
    /\ changes[1].path = arg.path
    /\ changes[2].path # arg.path

\* C2: a Create for P leaves a Create entry for P, and a Delete for P recorded
\* on a Create entry leaves no entry for P; both leave the entries of the
\* other paths unchanged
C2_CreateDeleteCancels ==
    [][/\ CreateRecorded
       /\ (/\ AddChangeStep("delete")
           /\ FindIndexByPath(changes, arg'.path) # 0
           /\ changes[FindIndexByPath(changes, arg'.path)].type = "create")
          => (/\ EntriesFor(changes', arg'.path) = <<>>
              /\ changes' = OtherEntries(changes, arg'.path))]_vars

\* C2 witness: a Delete was recorded, its path has no entry and the other
\* path's entry is still queued
C2_Witness ==
    /\ arg.op = "addChange"
    /\ arg.type = "delete"
    /\ FindIndexByPath(changes, arg.path) = 0
    /\ Len(changes) = 1

\* C3: an Update for P recorded on a Create entry leaves exactly one entry
\* for P, of kind Create, with the content and description of the Update
C3_CreateUpdateStaysCreate ==
    [][/\ CreateRecorded
       /\ (/\ AddChangeStep("update")
           /\ FindIndexByPath(changes, arg'.path) # 0
           /\ changes[FindIndexByPath(changes, arg'.path)].type = "create")
          => (/\ Len(EntriesFor(changes', arg'.path)) = 1
              /\ EntriesFor(changes', arg'.path)[1].type = "create"
              /\ EntriesFor(changes', arg'.path)[1].content = arg'.content
              /\ EntriesFor(changes', arg'.path)[1].description
                    = arg'.description)]_vars

\* C3 witness: the last call was an Update with content 1 and description
\* d2, and the entry of its path is a Create with that content
C3_Witness ==
    /\ arg.op = "addChange"
    /\ arg.type = "update"
    /\ arg.content = 1
    /\ arg.description = "d2"
    /\ Len(EntriesFor(changes, arg.path)) = 1
    /\ EntriesFor(changes, arg.path)[1].type = "create"
    /\ EntriesFor(changes, arg.path)[1].content = 1

\* the merge is neither Create-then-Delete nor Create-then-Update
DefaultMerge(existing, type) ==
    ~(existing.type = "create" /\ type \in {"delete", "update"})

\* C4: a change for a queued path that falls under neither special rule
\* replaces the entry in place: same position, the call's kind, content,
\* revision and description, a timestamp and an id read from the clock
\* during the call; the rest of the queue is untouched
C4_DefaultReplaces ==
    [][(/\ arg'.op = "addChange"
        /\ FindIndexByPath(changes, arg'.path) # 0
        /\ DefaultMerge(changes[FindIndexByPath(changes, arg'.path)],
                        arg'.type))
       => LET k == FindIndexByPath(changes, arg'.path)
          IN  /\ Len(changes') = Len(changes)
              /\ \A i \in 1..Len(changes) : i # k => changes'[i] = changes[i]
              /\ changes'[k].path = arg'.path
              /\ changes'[k].type = arg'.type
              /\ changes'[k].content = arg'.content
              /\ changes'[k].sha = arg'.sha
              /\ changes'[k].description = arg'.description
              /\ changes'[k].timestamp = now'
              /\ changes'[k].id[1] = arg'.path
              /\ changes'[k].id[2] \in now..now'
              /\ Len(EntriesFor(changes', arg'.path)) = 1]_vars

\* C4 witness: an Update replaced the first of two entries after the second
\* was queued: it carries a later timestamp than the entry behind it
C4_Witness ==
    /\ arg.op = "addChange"
    /\ arg.type = "update"
    /\ Len(changes) = 2
    /\ changes[1].path = arg.path
    /\ changes[1].type = "update"
    /\ changes[1].timestamp > changes[2].timestamp

\* C21: a Delete recorded for a path whose entry is an Update leaves the
\* queue as long as it was, with one entry for the path: a Delete with the
\* call's revision and the call's content, not the Update's
C21_UpdateThenDelete ==
    [][(/\ arg'.op = "addChange"
        /\ arg'.type = "delete"
        /\ FindIndexByPath(changes, arg'.path) # 0
        /\ changes[FindIndexByPath(changes, arg'.path)].type = "update")
       => /\ Len(changes') = Len(changes)
          /\ Len(EntriesFor(changes', arg'.path)) = 1
          /\ EntriesFor(changes', arg'.path)[1].type = "delete"
          /\ EntriesFor(changes', arg'.path)[1].sha = arg'.sha
          /\ EntriesFor(changes', arg'.path)[1].content = arg'.content]_vars

\* C21 witness: a Delete with a revision took the place of the first of two
\* entries after the second was queued, so the path had an entry that was
\* not a Create before the call
C21_Witness ==
    /\ arg.op = "addChange"
    /\ arg.type = "delete"
    /\ arg.sha = BlobSha(0)
    /\ Len(changes) = 2
    /\ changes[1].path = arg.path
    /\ changes[1].type = "delete"
    /\ changes[1].sha = BlobSha(0)
    /\ changes[1].content = EmptyText
    /\ changes[1].timestamp > changes[2].timestamp

\* the queue without its k-th entry, the others in their order
DropAt(q, k) == [i \in 1..(Len(q) - 1) |-> IF i < k THEN q[i] ELSE q[i + 1]]

\* the positions of the entries with the id, with the path
AtId(q, id) == {k \in 1..Len(q) : q[k].id = id}
AtPath(q, path) == {k \in 1..Len(q) : q[k].path = path}

\* C13: removeChange(id) and removeChangeByPath(path) take out the one entry
\* with the id / the path and keep the others in their order, and leave the
\* queue as it is when no entry has the id / the path
C13_RemoveTakesExactlyOne ==
    [][/\ arg'.op = "removeChange"
            => IF AtId(changes, arg'.id) = {}
               THEN changes' = changes
               ELSE /\ Cardinality(AtId(changes, arg'.id)) = 1
                    /\ \E k \in AtId(changes, arg'.id) :
                           changes' = DropAt(changes, k)
       /\ arg'.op = "removeChangeByPath"
            => IF AtPath(changes, arg'.path) = {}
               THEN changes' = changes
               ELSE /\ Cardinality(AtPath(changes, arg'.path)) = 1
                    /\ \E k \in AtPath(changes, arg'.path) :
                           changes' = DropAt(changes, k)
      ]_vars

\* removeChange has taken the entry with the id out of a queue of two
C13_Witness ==
    /\ arg.op = "removeChange"
    /\ arg.description = "present"
    /\ Len(changes) = 1
    /\ changes[1].id # arg.id

-----------------------------------------------------------------------------
(* Properties of the batch commit *)

\* a step in which commitChanges returns from its await
CommitReturns == committing /\ ~committing'

\* the entries of the batch with the given outcome
Outcome(o) == {i \in 1..Len(batch) : results[i] = o}

\* C5: a commit takes the whole queue as its batch; when every remote
\* operation of the batch has succeeded, the commit leaves the queue empty
\* and reports as committed the number of entries the queue held
C5_CommitDrainsQueue ==
    [][/\ (~committing /\ committing')
            => (Trim(commitMessage) # <<>> /\ batch' = ToBatch(changes))
       /\ (committing /\ committing') => batch' = batch
       /\ (CommitReturns /\ Outcome("ok") = 1..Len(batch))
            => (changes' = <<>> /\ success' = <<"committed", Len(batch)>>)
      ]_vars

\* a commit of three entries has succeeded and the queue is empty
C5_Witness ==
    /\ success = <<"committed", 3>>
    /\ changes = <<>>
    /\ ~committing
    /\ \A p \in Paths : remote[p] # NoFile

\* a step that settles entry i of the batch with the given outcome
Settles(i, o) ==
    /\ committing /\ committing'
    /\ i \in 1..Len(batch)
    /\ results[i] = "pending"
    /\ results' = [results EXCEPT ![i] = o]

WithoutPath(q, path) == SelectSeq(q, LAMBDA c : c.path # path)

CurrentSha(path) ==
    IF remote[path] = NoFile THEN NoSha ELSE BlobSha(remote[path])

\* C11: the batch holds, entry by entry, the path, kind, content and revision
\* of the queue; an entry of kind create or update that succeeds has put its
\* own content at its own path and carried the current revision of that
\* path, an entry of kind delete that succeeds has removed the file at its
\* own path and carried its current revision, and an entry that fails
\* leaves the repository as it was
C11_DispatchMatchesEntry ==
    [][/\ (~committing /\ committing')
            => /\ Len(batch') = Len(changes)
               /\ \A i \in 1..Len(changes) :
                      /\ batch'[i].path = changes[i].path
                      /\ batch'[i].type = changes[i].type
                      /\ batch'[i].content = changes[i].content
                      /\ batch'[i].sha = changes[i].sha
       /\ \A i \in 1..Len(batch) :
            /\ (Settles(i, "ok") /\ batch[i].type # "delete")
                 => /\ batch[i].sha = CurrentSha(batch[i].path)
                    /\ remote' = [remote EXCEPT ![batch[i].path] =
                                                    batch[i].content]
            /\ (Settles(i, "ok") /\ batch[i].type = "delete")
                 => /\ remote[batch[i].path] # NoFile
                    /\ batch[i].sha = CurrentSha(batch[i].path)
                    /\ remote' = [remote EXCEPT ![batch[i].path] = NoFile]
            /\ Settles(i, "failed") => remote' = remote
      ]_vars

\* a delete and a create of one batch have both succeeded: the deleted file
\* is gone and the created file holds the content of its entry
C11_Witness ==
    /\ committing
    /\ \E i, j \in 1..Len(batch) :
           /\ batch[i].type = "delete"
           /\ results[i] = "ok"
           /\ remote[batch[i].path] = NoFile
           /\ batch[j].type = "update"
           /\ batch[j].sha # NoSha
           /\ results[j] = "ok"
           /\ remote[batch[j].path] = batch[j].content

\* C22: every queued entry of kind create carries no revision
C22_CreateHasNoRevision ==
    \A i \in 1..Len(changes) :
        changes[i].type = "create" => changes[i].sha = NoSha

\* C23: an entry of the todo page that the commit carries out leaves
\* todos.json in the repository, holding the todos the entry was recorded
\* with
C23_DeleteTodoKeepsFile ==
    [][\A i \in 1..Len(batch) :
           (Settles(i, "ok") /\ batch[i].path = PATH_TODOS)
              => /\ remote'[PATH_TODOS] # NoFile
                 /\ remote'[PATH_TODOS] = batch[i].content]_vars

\* C24: outside a commit every queued entry carries the revision its file
\* has in the repository, and no commit fails with Conflict
C24_RevisionThreading ==
    /\ ~committing
          => \A i \in 1..Len(changes) :
                 changes[i].sha = CurrentSha(changes[i].path)
    /\ firstError[1] # "Conflict"
    /\ error[1] # "Conflict"

\* the batch has written entry e: its path, kind and content
Written(e) ==
    \E j \in 1..Len(batch) :
        /\ results[j] = "ok"
        /\ batch[j].path = e.path
        /\ batch[j].type = e.type
        /\ batch[j].content = e.content

\* entry e is in queue q
Queued(q, e) == \E k \in 1..Len(q) : q[k] = e

C26_OneCommitInFlight ==
    [][/\ (~committing /\ committing') => batch = <<>>
       /\ batch # <<>> => (batch' = batch \/ batch' = <<>>)]_vars

\* C27: no two entries of the queue have the same id, and removeChange(id)
\* leaves in place every entry whose id is not the one it was given
C27_UniqueIds ==
    [][/\ \A i, j \in 1..Len(changes') :
              i # j => changes'[i].id # changes'[j].id
       /\ arg'.op = "removeChange"
              => /\ Len(changes') >= Len(changes) - 1
                 /\ \A i \in 1..Len(changes) :
                        changes[i].id # arg'.id
                            => \E k \in 1..Len(changes') :
                                   changes'[k] = changes[i]]_vars

\* C27 witness: removeChange took out one of two entries recorded at the
\* same reading of the clock; the other one is still queued
C27_Witness ==
    /\ arg.op = "removeChange"
    /\ arg.description = "present"
    /\ Len(changes) = 1
    /\ changes[1].id[2] = arg.id[2]
    /\ changes[1].id[1] # arg.id[1]

\* C28: in every state of the session store the user is set only while a
\* token is, and a fetchUser that fails ends with neither
C28_IdentityImpliesCredential ==
    [][/\ authUser' # NoUser => token' # NoToken
       /\ (arg'.op = "fetchUserResponse" /\ arg'.description = "failed")
              => (token' = NoToken /\ authUser' = NoUser)]_vars

\* C29: the token in memory is the value stored under github_token, and
\* isAuthenticated holds exactly when a token is there
C29_PersistedInSync ==
    /\ token = localStorage.github_token
    /\ isAuthenticated(token) <=> token \in Tokens

\* C29 witness: the callback stored a token, fetchUser was called and
\* failed, and its logout removed the token from both places
C29_Witness ==
    /\ arg.op = "fetchUserResponse"
    /\ arg.path = "login"
    /\ arg.description = "failed"
    /\ oauth.sent = 1
    /\ token = NoToken
    /\ localStorage.github_token = NoToken

\* C30: the callback sends its request to the proxy only when the state of
\* the URL is the saved one, stores a token only on a successful answer
\* with access_token to that request, and on another state sends nothing
\* and leaves the token as it was
C30_StateCheck ==
    [][/\ (arg'.op = "load" /\ oauth'.sent = 1)
              => /\ oauth'.url.code
                 /\ oauth'.url.state = localStorage.oauth_state
                 /\ token' = token
       /\ (arg'.op \in {"load", "proxyResponse"} /\ token' # token)
              => /\ arg'.op = "proxyResponse"
                 /\ arg'.description = "ok+token"
                 /\ oauth.sent = 1
                 /\ oauth.url.state \in OauthStates
       /\ (arg'.op = "load" /\ oauth'.url.code
           /\ oauth'.url.state # localStorage.oauth_state)
              => /\ oauth'.sent = 0
                 /\ oauth'.pc = "idle"
                 /\ token' = token
                 /\ localStorage' = localStorage]_vars

\* C30 witness: with a state saved by handleLogin, a callback with another
\* state was turned away while the session held a token
C30_Witness ==
    /\ arg.op = "load"
    /\ oauth.url.code
    /\ oauth.url.state = "s1"
    /\ localStorage.oauth_state = "s2"
    /\ oauth.error = "state"
    /\ oauth.sent = 0
    /\ token = TheToken

\* C12: while a commit is in flight the queue changes only by the commit
\* taking out the entry it has just written
C12_NoQueueEditInFlight ==
    [][(committing /\ committing' /\ changes' # changes)
           => \E i \in 1..Len(batch) : Settles(i, "ok")]_vars

\* C7: commitChanges reports MissingMessage only for a blank message and
\* EmptyCommit only for an empty queue, the step that reports either leaves
\* the queue and the repository as they are and starts no batch, and a
\* batch is started only with a non-blank message and a non-empty queue
C7_BlankOrEmptyDoesNothing ==
    [][/\ (error' # error /\ error'[1] = "MissingMessage")
            => Trim(commitMessage) = <<>>
       /\ (error' # error /\ error'[1] = "EmptyCommit")
            => ~hasChanges(changes)
       /\ (error' # error /\ error'[1] \in {"MissingMessage", "EmptyCommit"})
            => /\ changes' = changes
               /\ remote' = remote
               /\ ~committing'
               /\ batch' = <<>>
       /\ (~committing /\ committing')
            => (Trim(commitMessage) # <<>> /\ hasChanges(changes))
      ]_vars

\* a commit with a message of white space only was refused while the queue
\* held an entry
C7_Witness ==
    /\ error = <<"MissingMessage", "">>
    /\ commitMessage = <<" ">>
    /\ hasChanges(changes)
    /\ ~committing
    /\ batch = <<>>

\* C10: the repository changes only in a step of the batch commit, never in
\* a step of a page
C10_PagesNeverWriteDirectly == [][remote' # remote => committing]_vars

\* the operations of the remote client
ClientOps == {"getFileContent", "saveFile", "deleteFile", "listFiles"}

\* C14: a call of the client made while it has no credential is answered
\* Unauthenticated whether or not the network is up and leaves the
\* repository as it is; a commit that reports 'please log in' was started
\* without a token, leaves the queue and the repository as they are and
\* starts no batch; and no batch is started without a token
C14_UnauthenticatedSendsNothing ==
    [][/\ (arg' # arg /\ arg'.op \in ClientOps /\ octokit = NoToken)
            => (reply' = "Unauthenticated" /\ remote' = remote)
       /\ (error' # error /\ error'[1] = "Unauthenticated")
            => /\ token = NoToken
               /\ changes' = changes
               /\ remote' = remote
               /\ ~committing'
               /\ batch' = <<>>
       /\ (~committing /\ committing') => token # NoToken
      ]_vars

\* a write was refused for want of a credential although the network was
\* up, and later a commit of a non-empty queue with a message was refused
\* for want of a token
C14_Witness ==
    /\ arg.op = "saveFile"
    /\ arg.description = "up"
    /\ reply = "Unauthenticated"
    /\ octokit = NoToken
    /\ token = NoToken
    /\ error = <<"Unauthenticated", "">>
    /\ hasChanges(changes)
    /\ Trim(commitMessage) # <<>>
    /\ ~committing

\* C19: the article page comes to show 'article not found' only in a step
\* in which the repository holds no file at the article's path
C19_NotFoundOnlyWhenMissing ==
    [][(articleError' = "ArticleNotFound" /\ articleError # "ArticleNotFound")
           => remote[PATH_ARTICLE] = NoFile]_vars

-----------------------------------------------------------------------------
(* Properties of the router and of preview mode *)

\* the step is a navigation of the router
NavigationStep == arg' # arg /\ arg'.op = "navigate"

\* the step closes the commit panel on the page it is shown on
CloseStep == show /\ ~show' /\ arg' = arg

\* C15: closing the commit panel, and a navigation of the router to any
\* route, leave the pending-changes queue exactly as it was
C15_CloseAndNavigateKeepQueue ==
    [][(NavigationStep \/ CloseStep) => changes' = changes]_vars

\* C15 witness: the entry the todo page recorded is still queued after the
\* panel was opened and closed and the router went to the dashboard
C15_Witness ==
    /\ arg = Push("dashboard")
    /\ route.name = "dashboard"
    /\ ~show
    /\ changes # <<>>
    /\ changes[1].path = PATH_TODOS

\* C16: a navigation to target `to`, with the flag and the token as the
\* guard finds them, ends on `to` when the flag is set; with the flag off
\* it ends on a route other than login only with a token, and without one
\* on login with the target as redirect; with the flag off and a token, a
\* navigation to login ends on the dashboard
C16_RouteGating ==
    [][NavigationStep =>
          LET to == arg'.path
          IN  /\ preview' => route' = Route(to)
              /\ (~preview' /\ to # "login" /\ token' # NoToken)
                    => route' = Route(to)
              /\ (~preview' /\ to # "login" /\ token' = NoToken)
                    => route' = [name |-> "login", redirect |-> to]
              /\ (~preview' /\ to = "login" /\ token' # NoToken)
                    => route' = Route("dashboard")
              /\ (~preview' /\ to = "login" /\ token' = NoToken)
                    => route' = Route("login")]_vars

\* C16 witness: without flag and token, a navigation to the todo page has
\* ended on login with the todo page as redirect
C16_Witness ==
    /\ arg = Push("todos")
    /\ ~preview
    /\ token = NoToken
    /\ route = [name |-> "login", redirect |-> "todos"]

\* C18: while the preview flag is set, no step reads from or writes to the
\* repository (the client is not initialised, no revision is fetched, the
\* files stay) and no step records a change in the queue
C18_PreviewTouchesNothing ==
    [][(preview /\ preview')
          => /\ octokit' = octokit
             /\ todoSha' = todoSha
             /\ remote' = remote
             /\ (changes' = changes \/ changes' = <<>>)]_vars

-----------------------------------------------------------------------------
(* Properties of the OAuth proxy *)

\* an allow-list is configured
Configured(env) == env.set /\ env.value # <<>>

\* the login is one of the comma-separated names of the list, leaving
\* case and surrounding blanks aside
OnList(login, env) ==
    \E i \in 1..Len(split(env.value)) :
        toLowerCase(Trim(split(env.value)[i])) = toLowerCase(login)

\* the exchange of the code for a token succeeded
Exchanged(r) == r.code /\ r.exchange = "token"

\* C17: the answer of GET /callback holds access_token only if the code was
\* exchanged and, with an allow-list configured, the login is on the list;
\* an answer without access_token is an error with a 4xx or 5xx status;
\* and without an allow-list every exchanged user GitHub names gets the
\* token
C17_AllowList ==
    response.worker # "none" =>
        /\ response.access_token
              => /\ Exchanged(response)
                 /\ Configured(response.ALLOWED_USERS)
                       => OnList(response.login, response.ALLOWED_USERS)
        /\ ~response.access_token
              => response.error /\ response.status \in 400..599
        /\ (/\ Exchanged(response)
            /\ response.user = "ok"
            /\ ~Configured(response.ALLOWED_USERS))
              => response.access_token

-----------------------------------------------------------------------------
(* Properties of the remote client *)

\* the call just made carried a revision, the file exists with another
\* revision, and the request reached the API
StaleCall(call, rem, kit) ==
    /\ call.op \in {"saveFile", "deleteFile"}
    /\ kit # NoToken
    /\ call.description = "up"
    /\ rem[call.path] # NoFile
    /\ call.sha # NoSha
    /\ call.sha # BlobSha(rem[call.path])

\* C8: a saveFile or deleteFile issued with a revision that is not the
\* current revision of the existing remote file fails with Conflict, and the
\* remote content is what it was before the call
C8_StaleRevisionConflicts ==
    [][StaleCall(arg', remote, octokit)
           => (reply' = "Conflict" /\ remote' = remote)]_vars

\* a write with a stale revision was refused while the file holds another
\* content than the one the call carried
C8_Witness ==
    /\ arg.op = "saveFile"
    /\ reply = "Conflict"
    /\ remote[arg.path] # NoFile
    /\ arg.sha # NoSha
    /\ arg.sha # BlobSha(remote[arg.path])
    /\ arg.content # remote[arg.path]

-----------------------------------------------------------------------------
(* Properties of the transcoding *)

\* C9: for every text, getFileContent after saveFile returns the text that
\* was saved
C9_RoundTrip == cpc = "read" => readBack = text

-----------------------------------------------------------------------------
(* Properties of the listing *)

\* the entries below dir that no excluded directory hides: every name
\* between dir and the entry itself starts with another character than '_'
Visible(t, dir) ==
    {e \in t :
        /\ Len(e.path) > Len(dir)
        /\ SubSeq(e.path, 1, Len(dir)) = dir
        /\ \A k \in (Len(dir) + 1)..(Len(e.path) - 1) :
               ~StartsWithUnderscore(e.path[k])}

\* the items of a listing, as a set
Items(l) == {l[k] : k \in 1..Len(l)}

\* C20: a recursive listing of a directory that is answered returns, each
\* once, exactly the entries of type file below the directory that no
\* directory with a name starting with '_' lies above
C20_RecursiveListing ==
    [][(/\ arg'.op = "listFiles"
        /\ listing'.recursive
        /\ reply' = "ok"
        /\ IsDir(tree, listing'.dir))
           => /\ Items(listing'.items)
                    = {e \in Visible(tree, listing'.dir) : e.type = "file"}
              /\ Cardinality(Items(listing'.items)) = Len(listing'.items)
      ]_vars

\* a recursive listing of the root has returned a file of a subdirectory
\* and has left out a file below an underscore directory
C20_Witness ==
    /\ arg.op = "listFiles"
    /\ listing.recursive
    /\ listing.dir = Root
    /\ reply = "ok"
    /\ \E e \in Items(listing.items) : Len(e.path) = 2
    /\ \E e \in tree : /\ e.type = "file"
                      /\ Len(e.path) = 2
                      /\ StartsWithUnderscore(e.path[1])
                      /\ e \notin Items(listing.items)

====
